---------------------------- MODULE Spec2Model ----------------------------
(***************************************************************************)
(* A model of the retrieval-and-context-assembly core of LiveOpsMVP:       *)
(* the context selector, the record store and its indexes, the vector      *)
(* store and hybrid searcher, the intent analyzer, the change analyzer and *)
(* the insight fallback.  Each component has its own specification over    *)
(* the shared variables; the variables of the other components stay at     *)
(* their initial values.                                                   *)
(***************************************************************************)
EXTENDS Integers, Sequences, FiniteSets, TLC

(***************************************************************************)
(* Bounds of the model.                                                    *)
(***************************************************************************)
MaxRules == 2          \* rules in one context-selection policy
MaxItems == 2          \* items of one fetched context collection
MaxTokens == 3         \* largest token limit passed to select_context
MaxTotalTokens == 3    \* settings.token_limits.max_total_tokens of the policy file
ReservedTokens == 1    \* settings.token_limits.reserved_tokens of the policy file

MaxChanges == 2        \* changes in the record store
MaxMetrics == 2        \* measurements in the record store
MaxDocs == 2           \* documents in the vector store
MaxQueryLen == 3       \* fragments of an analyzed query

\* token cost of one item of a fetched collection (len(text) // 4 of its strings)
ItemTokens == {0, 1, 2}

VARIABLES
    \* ---- ContextSelector.select_context: the call and its locals
    intent_rules,      \* the policy: rules in priority order, each [type, required]
    rule_data,         \* what _get_context_for_rule returns for each rule
    max_tokens,        \* the max_tokens argument (0: not given)
    context,           \* the returned context: context type -> data
    used_tokens,       \* the running token count at return
    sel_pc,            \* "call" before select_context has run, "done" after
    \* ---- ContextSelector._parse_time_window: the call
    window_spec,       \* the window_spec argument, as the parts split() gives
    now,               \* datetime.now() at the call, in whole days
    \* ---- ContextSelector._trim_context: the call
    trim_data,         \* the context_data argument (a list or a mapping)
    trim_limit,        \* the max_tokens argument
    \* ---- TextProcessor.split_into_chunks: the processor, the call and its locals
    tp_config,         \* chunk_size, chunk_overlap, min_chunk_size, clean_text
    tp_text,           \* the text argument; the cleaned text once the call has begun
    tp_start,          \* the local start
    tp_chunks,         \* the (start_char, end_char) pairs of the chunks appended
    tp_pc,             \* "call" before the call, "loop" at the while test, "done" at return
    \* ---- KnowledgeRepository
    changes,           \* self.changes: the LiveOpsChange records, in insertion order
    metrics,           \* self.metrics: the MetricMeasurement records, in insertion order
    \* ---- IndexBuilder
    category_index,    \* category -> positions
    metric_impact_index, \* impact -> metric -> positions
    temporal_index,    \* positions sorted by timestamp
    weekly_buckets,    \* year-week -> positions
    tag_index,         \* tag -> positions
    indexed_count,     \* history: len(changes) at the last build_all_indexes that completed
    \* ---- VectorStore
    documents,         \* self.documents, in insertion order
    embeddings,        \* self.embeddings: one row per document it was stacked from
                       \* (the empty sequence: None)
    vs_needs_refresh,  \* VectorStore._needs_refresh
    \* ---- HybridSearcher
    semantic_weight,   \* self.semantic_weight, in units of 1e-7
    keyword_weight,    \* self.keyword_weight, in units of 1e-7
    tfidf_matrix,      \* self._tfidf_matrix: one row per text it was fitted on
                       \* (the empty sequence: None)
    hs_needs_refresh,  \* HybridSearcher._needs_refresh
    \* ---- IntentAnalyzer.analyze: the analyzer and the call
    ia_query,          \* the query argument
    ia_config,         \* the loaded entity configuration and intent examples
    ia_embedding,      \* the embedding of the query (the empty sequence: no model)
    \* ---- EnhancedRAGSystem
    rag_embeddings,    \* self.embeddings: one row per description it was fitted on
                       \* (the empty sequence: None)
    \* ---- LLMService
    llm_is_enabled,    \* self.is_enabled
    llm_usage_count,   \* self.usage_count (the empty sequence: the attribute is not set)
    \* ---- the last call made to a component and what it returned or raised
    ret

selVars == <<intent_rules, rule_data, max_tokens, context, used_tokens, sel_pc,
             window_spec, now, trim_data, trim_limit>>
procVars == <<tp_config, tp_text, tp_start, tp_chunks, tp_pc>>
repoVars == <<changes, metrics>>
idxVars == <<category_index, metric_impact_index, temporal_index, weekly_buckets,
             tag_index, indexed_count>>

storeVars == <<documents, embeddings, vs_needs_refresh>>
hybVars == <<semantic_weight, keyword_weight, tfidf_matrix, hs_needs_refresh>>
intentVars == <<ia_query, ia_config, ia_embedding>>
llmVars == <<llm_is_enabled, llm_usage_count>>
\* the EnhancedRAGSystem: its matrix and its llm_service
insightVars == <<rag_embeddings, llmVars>>
extVars == <<storeVars, hybVars, intentVars, insightVars>>

vars == <<selVars, procVars, repoVars, idxVars, extVars, ret>>

NoCall == [op |-> "none"]

(***************************************************************************)
(* Helpers.                                                                *)
(***************************************************************************)
RECURSIVE SumSeq(_)
SumSeq(s) == IF s = <<>> THEN 0 ELSE Head(s) + SumSeq(Tail(s))

SeqsUpTo(S, n) == UNION {[1..k -> S] : k \in 0..n}

\* the sum of f over the set S
RECURSIVE SumOver(_, _)
SumOver(f, S) ==
    IF S = {} THEN 0
    ELSE LET x == CHOOSE y \in S : TRUE IN f[x] + SumOver(f, S \ {x})

IsPrefix(p, s) == Len(p) <= Len(s) /\ \A i \in 1..Len(p) : p[i] = s[i]

(***************************************************************************)
(* Context selector (src/src/rag/context/selector.py).                     *)
(*                                                                         *)
(* Fetched context data is a collection: a list (category_changes,         *)
(* confounding_factors, similar_changes) or a mapping (the other           *)
(* handlers).  It is modelled by the token costs of its items (for a       *)
(* mapping: of its key/value pairs) in iteration order.  A handler that    *)
(* returns None or an empty collection is the empty sequence: both are     *)
(* falsy at "if context_data".                                             *)
(***************************************************************************)
ContextTypes ==
    <<"category_changes", "metric_history", "similar_changes", "domain_knowledge",
      "temporal_data", "comparison_data", "confounding_factors">>

\* the shape of the value each source handler returns
KindOf(type) ==
    IF type \in {"category_changes", "similar_changes", "confounding_factors"}
    THEN "list" ELSE "dict"

\* _estimate_context_tokens on a collection: the sum over its items
estimate_context_tokens(context_data) == SumSeq(context_data)

\* _trim_context on a list or dict: items are kept in order while the running
\* sum stays within max; the loop breaks at the first item that does not fit
RECURSIVE TrimLoop(_, _, _, _)
RECURSIVE TrimLoop_skip_misfit(_, _, _, _)
\* mutant: an item that does not fit is passed over and the loop goes on
TrimLoop_skip_misfit(context_data, max, trimmed, tokens) ==
    IF context_data = <<>> THEN trimmed
    ELSE LET item_tokens == Head(context_data)
         IN IF tokens + item_tokens <= max
            THEN TrimLoop_skip_misfit(Tail(context_data), max,
                                      Append(trimmed, item_tokens), tokens + item_tokens)
            ELSE TrimLoop_skip_misfit(Tail(context_data), max, trimmed, tokens)

TrimLoop(context_data, max, trimmed, tokens) ==
    IF context_data = <<>> THEN trimmed
    ELSE LET item_tokens == Head(context_data)
         IN IF tokens + item_tokens <= max
            THEN TrimLoop(Tail(context_data), max, Append(trimmed, item_tokens),
                          tokens + item_tokens)
            ELSE trimmed

trim_context(context_data, max) == TrimLoop(context_data, max, <<>>, 0)

Put(ctx, k, v) == [x \in (DOMAIN ctx) \cup {k} |-> IF x = k THEN v ELSE ctx[x]]

\* the available budget of a call: "max_tokens or settings[max_total_tokens]",
\* minus the reserved tokens
AvailableTokens(maxTok) ==
    (IF maxTok = 0 THEN MaxTotalTokens ELSE maxTok) - ReservedTokens

\* mutant: the trim applied to required rules too
SelectRule_trim_required(st, rule, context_data, available_tokens) ==
    IF context_data = <<>> THEN st
    ELSE LET context_tokens == estimate_context_tokens(context_data)
             add == st.used_tokens + context_tokens <= available_tokens \/ rule.required
             s1 == IF add
                   THEN [context |-> Put(st.context, rule.type, context_data),
                         used_tokens |-> st.used_tokens + context_tokens]
                   ELSE st
         IN IF s1.used_tokens > available_tokens
            THEN [context |-> Put(s1.context, rule.type,
                                  trim_context(context_data,
                                      available_tokens - (s1.used_tokens - context_tokens))),
                  used_tokens |-> available_tokens]
            ELSE s1

\* one iteration of the loop over priority_order (selector.py lines 82-104)
SelectRule(st, rule, context_data, available_tokens) ==
    IF context_data = <<>> THEN st
    ELSE LET context_tokens == estimate_context_tokens(context_data)
             add == st.used_tokens + context_tokens <= available_tokens \/ rule.required
             s1 == IF add
                   THEN [context |-> Put(st.context, rule.type, context_data),
                         used_tokens |-> st.used_tokens + context_tokens]
                   ELSE st
         IN IF s1.used_tokens > available_tokens /\ ~rule.required
            THEN [context |-> Put(s1.context, rule.type,
                                  trim_context(context_data,
                                      available_tokens - (s1.used_tokens - context_tokens))),
                  used_tokens |-> available_tokens]
            ELSE s1

RECURSIVE SelectLoop(_, _, _, _, _)
RECURSIVE SelectLoop_stop_at_misfit(_, _, _, _, _)
\* mutant: the loop ends at the first non-required rule that does not fit
SelectLoop_stop_at_misfit(rules, data, i, available_tokens, st) ==
    IF i > Len(rules) THEN st
    ELSE IF /\ ~rules[i].required
            /\ st.used_tokens + estimate_context_tokens(data[i]) > available_tokens
         THEN st
         ELSE SelectLoop_stop_at_misfit(rules, data, i + 1, available_tokens,
                  SelectRule(st, rules[i], data[i], available_tokens))

\* the loop over priority_order (selector.py lines 78-106)
SelectLoop(rules, data, i, available_tokens, st) ==
    IF i > Len(rules) THEN st
    ELSE SelectLoop(rules, data, i + 1, available_tokens,
                    SelectRule(st, rules[i], data[i], available_tokens))

select_context(rules, data, maxTok) ==
    SelectLoop(rules, data, 1, AvailableTokens(maxTok),
               [context |-> <<>>, used_tokens |-> 0])

(***************************************************************************)
(* Record store (src/src/data/models.py, src/src/data/repository.py).      *)
(*                                                                         *)
(* Timestamps are whole days.  Positions in self.changes count from 1      *)
(* (Python's from 0).  A change identifier is the number of the change;    *)
(* 0 is an identifier no change has.  A float is a fraction num/den with   *)
(* den >= 0: den = 0 and num = 1 is float('inf').                          *)
(***************************************************************************)
Frac(n, d) == IF d < 0 THEN [num |-> 0 - n, den |-> 0 - d] ELSE [num |-> n, den |-> d]
Inf == [num |-> 1, den |-> 0]
Zero == [num |-> 0, den |-> 1]

\* float comparisons with an integer: x > k, x < k
FracGt(x, k) == x.num > k * x.den
FracLt(x, k) == x.num < k * x.den
FracEq(x, y) ==
    \/ (x.den = 0 /\ y.den = 0 /\ x.num = y.num)
    \/ (x.den # 0 /\ y.den # 0 /\ x.num * y.den = y.num * x.den)

\* mutant: the zero guard without the test of the after value
calculate_percent_change_unguarded(before_value, after_value) ==
    IF before_value = 0
    THEN Inf
    ELSE Frac((after_value - before_value) * 100, before_value)

\* MetricMeasurement._calculate_percent_change
calculate_percent_change(before_value, after_value) ==
    IF before_value = 0
    THEN (IF after_value > 0 THEN Inf ELSE Zero)
    ELSE Frac((after_value - before_value) * 100, before_value)

\* MetricMeasurement.__init__
MetricMeasurement(change_id, metric_name, before_value, after_value, timestamp) ==
    [change_id |-> change_id, metric_name |-> metric_name,
     before_value |-> before_value, after_value |-> after_value,
     timestamp |-> timestamp, value |-> after_value,
     percent_change |-> calculate_percent_change(before_value, after_value)]

\* LiveOpsChange.__init__; the description is the set of its terms and
\* expected_impact is the mapping in insertion order, a sequence of
\* [metric, impact] pairs with distinct metrics
LiveOpsChange(change_id, timestamp, category, description, expected_impact, tags) ==
    [change_id |-> change_id, timestamp |-> timestamp, category |-> category,
     description |-> description, expected_impact |-> expected_impact, tags |-> tags]

\* dict.get(key, default) on an expected_impact mapping
ImpactGet(expected_impact, metric, default) ==
    IF \E i \in 1..Len(expected_impact) : expected_impact[i].metric = metric
    THEN expected_impact[CHOOSE i \in 1..Len(expected_impact) :
                            expected_impact[i].metric = metric].impact
    ELSE default

\* enumerate(self.knowledge_repo.changes): the positions 1..n, ascending
Positions(n) == [i \in 1..n |-> i]

\* KnowledgeRepository.get_metrics_for_change: the measurements of the change,
\* in insertion order (to_dict copies every field)
get_metrics_for_change(ms, change_id) ==
    SelectSeq(ms, LAMBDA m : m.change_id = change_id)

(***************************************************************************)
(* Index builder (src/src/rag/indexing/indexes.py).                        *)
(***************************************************************************)
ConventionalMetrics == {"revenue", "dau", "retention", "session_length", "conversion_rate"}
Impacts == {"increase", "decrease", "neutral"}

\* build_category_index
build_category_index(chs) ==
    [c \in {chs[i].category : i \in 1..Len(chs)} |->
        SelectSeq(Positions(Len(chs)),LAMBDA i : chs[i].category = c)]

\* the first (position, item) of the scan of build_metric_impact_index whose
\* metric or impact is no key of the prepared mapping: the scan raises KeyError
\* there.  <<0, 0>> when the scan completes.
ItemFails(chs, i, j) ==
    \/ chs[i].expected_impact[j].impact \notin Impacts
    \/ chs[i].expected_impact[j].metric \notin ConventionalMetrics

FirstKeyError(chs) ==
    LET bad == {i \in 1..Len(chs) :
                  \E j \in 1..Len(chs[i].expected_impact) : ItemFails(chs, i, j)}
    IN IF bad = {} THEN <<0, 0>>
       ELSE LET i == CHOOSE x \in bad : \A y \in bad : x <= y
                j == CHOOSE x \in 1..Len(chs[i].expected_impact) :
                        /\ ItemFails(chs, i, x)
                        /\ \A y \in 1..(x - 1) : ~ItemFails(chs, i, y)
            IN <<i, j>>

\* (i, j) is scanned before the scan stops at stop (or the scan completes)
ScannedBefore(i, j, stop) ==
    stop = <<0, 0>> \/ i < stop[1] \/ (i = stop[1] /\ j < stop[2])

\* build_metric_impact_index: the mapping as the scan leaves it
build_metric_impact_index(chs) ==
    LET stop == FirstKeyError(chs)
    IN [d \in Impacts |-> [m \in ConventionalMetrics |->
          SelectSeq(Positions(Len(chs)),LAMBDA i :
             \E j \in 1..Len(chs[i].expected_impact) :
                /\ chs[i].expected_impact[j].metric = m
                /\ chs[i].expected_impact[j].impact = d
                /\ ScannedBefore(i, j, stop))]]

\* sorted(range(len(changes)), key=timestamp): a stable sort of the positions
InsertStable(acc, x, chs) ==
    LET p == Cardinality({j \in 1..Len(acc) : chs[acc[j]].timestamp <= chs[x].timestamp})
    IN SubSeq(acc, 1, p) \o <<x>> \o SubSeq(acc, p + 1, Len(acc))

RECURSIVE SortLoop(_, _, _)
SortLoop(chs, i, acc) ==
    IF i > Len(chs) THEN acc ELSE SortLoop(chs, i + 1, InsertStable(acc, i, chs))

sorted_by_timestamp(chs) == SortLoop(chs, 1, <<>>)

\* strftime("%Y-%U"): the week of a day, day 0 being a Sunday
YearWeek(timestamp) == timestamp \div 7

\* mutant: the positions in insertion order, not sorted
build_temporal_index_unsorted(chs) == [i \in 1..Len(chs) |-> i]

\* build_temporal_index: the temporal index and the weekly buckets
build_temporal_index(chs) == sorted_by_timestamp(chs)

build_weekly_buckets(chs) ==
    [w \in {YearWeek(chs[i].timestamp) : i \in 1..Len(chs)} |->
        SelectSeq(Positions(Len(chs)),LAMBDA i : YearWeek(chs[i].timestamp) = w)]

\* build_tag_index
TagsOf(chs) == UNION {{chs[i].tags[j] : j \in 1..Len(chs[i].tags)} : i \in 1..Len(chs)}

\* mutant: only the first tag of each change is indexed
build_tag_index_first_tag(chs) ==
    [t \in {chs[i].tags[1] : i \in {j \in 1..Len(chs) : chs[j].tags # <<>>}} |->
        SelectSeq(Positions(Len(chs)),
                  LAMBDA i : chs[i].tags # <<>> /\ chs[i].tags[1] = t)]

build_tag_index(chs) ==
    [t \in TagsOf(chs) |->
        SelectSeq(Positions(Len(chs)),LAMBDA i : \E j \in 1..Len(chs[i].tags) : chs[i].tags[j] = t)]

\* the {change, metrics} entries of a list of positions
\* mutant: the result entries carry no metrics
Entries_without_metrics(positions) ==
    [k \in 1..Len(positions) |->
        [change |-> changes[positions[k]], metrics |-> <<>>]]

\* the result entries of a search: each change with the metrics stored for it
Entries(positions) ==
    [k \in 1..Len(positions) |->
        [change |-> changes[positions[k]],
         metrics |-> get_metrics_for_change(metrics, changes[positions[k]].change_id)]]

\* mutant: a missing category falls back to every indexed change
search_by_category_all_on_miss(category) ==
    IF category \notin DOMAIN category_index THEN Entries(temporal_index)
    ELSE Entries(category_index[category])

search_by_category(category) ==
    IF category \notin DOMAIN category_index THEN <<>>
    ELSE Entries(category_index[category])

\* mutant: the tag is looked up in the store, not in the index
search_by_tag_scan(tag) ==
    Entries(SelectSeq(Positions(Len(changes)),
                      LAMBDA i : \E j \in 1..Len(changes[i].tags) : changes[i].tags[j] = tag))

search_by_tag(tag) ==
    IF tag \notin DOMAIN tag_index THEN <<>>
    ELSE Entries(tag_index[tag])

search_by_metric_impact(metric, impact) ==
    IF impact \notin DOMAIN metric_impact_index
       \/ metric \notin DOMAIN metric_impact_index[impact]
    THEN <<>>
    ELSE Entries(metric_impact_index[impact][metric])

\* the loop of search_by_date_range over the temporal index, with its early break
RECURSIVE DateRangeLoop(_, _, _, _)
DateRangeLoop(idxs, start_date, end_date, results) ==
    IF idxs = <<>> THEN results
    ELSE LET change == changes[Head(idxs)]
         IN IF start_date <= change.timestamp /\ change.timestamp <= end_date
            THEN DateRangeLoop(Tail(idxs), start_date, end_date,
                               Append(results, Head(idxs)))
            ELSE IF change.timestamp > end_date
                 THEN results
                 ELSE DateRangeLoop(Tail(idxs), start_date, end_date, results)

search_by_date_range(start_date, end_date) ==
    Entries(DateRangeLoop(temporal_index, start_date, end_date, <<>>))

\* KnowledgeRepository.get_metric_history: the measurements of the metric in
\* the range, sorted by timestamp (list.sort is stable)
get_metric_history(ms, metric_name, start_date, end_date) ==
    LET matching == SelectSeq(ms, LAMBDA m : /\ m.metric_name = metric_name
                                              /\ start_date <= m.timestamp
                                              /\ m.timestamp <= end_date)
        order == sorted_by_timestamp(matching)
        sorted == [k \in 1..Len(order) |-> matching[order[k]]]
        values == [k \in 1..Len(sorted) |-> sorted[k].value]
        timestamps == [k \in 1..Len(sorted) |-> sorted[k].timestamp]
    IN [values |-> values,
        timestamps |-> timestamps,
        trend_analysis |->
            IF values # <<>>
            THEN LET first_value == values[1]
                     last_value == values[Len(values)]
                 IN [start_value |-> first_value,
                     end_value |-> last_value,
                     percent_change |->
                         IF first_value # 0
                         THEN Frac((last_value - first_value) * 100, first_value)
                         ELSE Zero,
                     num_measurements |-> Len(values)]
            ELSE [start_value |-> 0, end_value |-> 0, percent_change |-> Zero,
                  num_measurements |-> 0]]

(***************************************************************************)
(* The actions of the record store and the index builder.                  *)
(***************************************************************************)
\* KnowledgeRepository.add_change
AddChange(timestamp, category, description, expected_impact, tags) ==
    /\ Len(changes) < MaxChanges
    /\ changes' = Append(changes, LiveOpsChange(Len(changes) + 1, timestamp, category,
                                                description, expected_impact, tags))
    /\ ret' = [op |-> "add_change"]
    /\ UNCHANGED <<metrics, idxVars, selVars, procVars, extVars>>

\* KnowledgeRepository.add_metric
AddMetric(change_id, metric_name, before_value, after_value, timestamp) ==
    /\ Len(metrics) < MaxMetrics
    /\ metrics' = Append(metrics, MetricMeasurement(change_id, metric_name, before_value,
                                                    after_value, timestamp))
    /\ ret' = [op |-> "add_metric"]
    /\ UNCHANGED <<changes, idxVars, selVars, procVars, extVars>>

\* IndexBuilder.build_all_indexes: the four builds in order; a KeyError in
\* build_metric_impact_index leaves the later indexes as they were
BuildAllIndexes ==
    LET stop == FirstKeyError(changes)
    IN /\ category_index' = build_category_index(changes)
       /\ metric_impact_index' = build_metric_impact_index(changes)
       /\ IF stop = <<0, 0>>
          THEN /\ temporal_index' = build_temporal_index(changes)
               /\ weekly_buckets' = build_weekly_buckets(changes)
               /\ tag_index' = build_tag_index(changes)
               /\ indexed_count' = Len(changes)
               /\ ret' = [op |-> "build_all_indexes", raised |-> "none"]
          ELSE /\ UNCHANGED <<temporal_index, weekly_buckets, tag_index, indexed_count>>
               /\ ret' = [op |-> "build_all_indexes", raised |-> "KeyError"]
       /\ UNCHANGED <<repoVars, selVars, procVars, extVars>>

Result(op, args, value) == [op |-> op, args |-> args, value |-> value, raised |-> "none"]

SearchByCategory(category) ==
    /\ ret' = Result("search_by_category", <<category>>, search_by_category(category))
    /\ UNCHANGED <<repoVars, idxVars, selVars, procVars, extVars>>

SearchByTag(tag) ==
    /\ ret' = Result("search_by_tag", <<tag>>, search_by_tag(tag))
    /\ UNCHANGED <<repoVars, idxVars, selVars, procVars, extVars>>

SearchByMetricImpact(metric, impact) ==
    /\ ret' = Result("search_by_metric_impact", <<metric, impact>>,
                     search_by_metric_impact(metric, impact))
    /\ UNCHANGED <<repoVars, idxVars, selVars, procVars, extVars>>

SearchByDateRange(start_date, end_date) ==
    /\ ret' = Result("search_by_date_range", <<start_date, end_date>>,
                     search_by_date_range(start_date, end_date))
    /\ UNCHANGED <<repoVars, idxVars, selVars, procVars, extVars>>

GetMetricsForChange(change_id) ==
    /\ ret' = Result("get_metrics_for_change", <<change_id>>,
                     get_metrics_for_change(metrics, change_id))
    /\ UNCHANGED <<repoVars, idxVars, selVars, procVars, extVars>>

\* KnowledgeRepository.get_metric_history
GetMetricHistory(metric_name, start_date, end_date) ==
    /\ ret' = Result("get_metric_history", <<metric_name, start_date, end_date>>,
                     get_metric_history(metrics, metric_name, start_date, end_date))
    /\ UNCHANGED <<repoVars, idxVars, selVars, procVars, extVars>>

(***************************************************************************)
(* Change analyzer (src/src/rag/analysis/analyzer.py), with no text        *)
(* generation service (llm_service is None).                               *)
(***************************************************************************)
\* mutant: the thresholds taken inclusively
ActualDirection_inclusive(percent_change) ==
    IF ~FracLt(percent_change, 5) THEN "increase"
    ELSE IF ~FracGt(percent_change, 0 - 5) THEN "decrease"
    ELSE "neutral"

\* the direction a measured percent change is classified as (lines 42-46)
ActualDirection(percent_change) ==
    IF FracGt(percent_change, 5) THEN "increase"
    ELSE IF FracLt(percent_change, 0 - 5) THEN "decrease"
    ELSE "neutral"

\* one entry of impact_analysis (lines 39-55)
ImpactEntry(change, metric) ==
    LET expected == ImpactGet(change.expected_impact, metric.metric_name, "neutral")
        actual == ActualDirection(metric.percent_change)
    IN [expected |-> expected,
        actual |-> actual,
        percent_change |-> metric.percent_change,
        before |-> metric.before_value,
        after |-> metric.after_value,
        matched_expectation |->
            \/ expected = actual
            \/ (/\ expected = "neutral"
                /\ ~FracLt(metric.percent_change, 0 - 5)
                /\ ~FracGt(metric.percent_change, 5))]

\* impact_analysis: keyed by metric name, a later measurement of the same
\* metric overwrites the entry of an earlier one
ImpactAnalysis(change, ms) ==
    [name \in {ms[k].metric_name : k \in 1..Len(ms)} |->
        ImpactEntry(change,
                    ms[CHOOSE k \in 1..Len(ms) :
                          /\ ms[k].metric_name = name
                          /\ \A l \in (k + 1)..Len(ms) : ms[l].metric_name # name])]

\* ChangeAnalyzer.analyze_change_impact.  "3 days before" to "5 minutes before"
\* the change is, in whole days, timestamp - 3 to timestamp - 1.
analyze_change_impact(change_id) ==
    IF \A i \in 1..Len(changes) : changes[i].change_id # change_id
    THEN [error |-> "Change not found"]
    ELSE LET change == changes[CHOOSE i \in 1..Len(changes) :
                                  /\ changes[i].change_id = change_id
                                  /\ \A j \in 1..(i - 1) : changes[j].change_id # change_id]
             ms == get_metrics_for_change(metrics, change_id)
             recent_changes == search_by_date_range(change.timestamp - 3,
                                                    change.timestamp - 1)
             category_changes == search_by_category(change.category)
             similar == SelectSeq(category_changes,
                                  LAMBDA r : r.change.change_id # change_id)
         IN [change |-> change,
             impact_analysis |-> ImpactAnalysis(change, ms),
             recent_changes |-> [k \in 1..Len(recent_changes) |-> recent_changes[k].change],
             similar_changes |-> [k \in 1..(IF Len(similar) < 5 THEN Len(similar) ELSE 5)
                                     |-> similar[k].change]]

AnalyzeChangeImpact(change_id) ==
    /\ ret' = Result("analyze_change_impact", <<change_id>>,
                     analyze_change_impact(change_id))
    /\ UNCHANGED <<repoVars, idxVars, selVars, procVars, extVars>>

(***************************************************************************)
(* Vector store (src/src/rag/embeddings/vectorstore.py).                   *)
(*                                                                         *)
(* An embedding is a vector of integers in tenths, so that a dot product   *)
(* is a similarity in hundredths.  A document's metadata and a metadata    *)
(* filter are sets of <<key, value>> pairs.  An Optional argument is the   *)
(* empty sequence (None) or a sequence of one value.                       *)
(***************************************************************************)
Document(id, text, embedding, metadata) ==
    [id |-> id, text |-> text, embedding |-> embedding, metadata |-> metadata]

Dot(u, v) == SumSeq([i \in 1..Len(u) |-> u[i] * v[i]])

\* np.vstack of the documents' embeddings; None when there is no document
StackEmbeddings(docs) == [i \in 1..Len(docs) |-> docs[i].embedding]

\* VectorStore._refresh_embeddings: the matrix after the call
refresh_embeddings(docs, embs, needs_refresh) ==
    IF needs_refresh THEN StackEmbeddings(docs) ELSE embs

\* insert position i into a list of positions ordered by ascending value,
\* after the positions of equal value (a stable sort)
RECURSIVE InsertAscending(_, _, _)
InsertAscending(sorted, i, vals) ==
    IF sorted = <<>> THEN <<i>>
    ELSE IF vals[i] < vals[Head(sorted)]
         THEN <<i>> \o sorted
         ELSE <<Head(sorted)>> \o InsertAscending(Tail(sorted), i, vals)

RECURSIVE ArgsortLoop(_, _, _)
ArgsortLoop(todo, sorted, vals) ==
    IF todo = <<>> THEN sorted
    ELSE ArgsortLoop(Tail(todo), InsertAscending(sorted, Head(todo), vals), vals)

\* np.argsort over the values at the given positions
argsort(positions, vals) == ArgsortLoop(positions, <<>>, vals)

\* s[-k:] for k >= 0: the last k elements, and the whole of s when k = 0
LastK(s, k) ==
    IF k = 0 \/ k >= Len(s) THEN s
    ELSE SubSeq(s, Len(s) - k + 1, Len(s))

Reverse(s) == [i \in 1..Len(s) |-> s[Len(s) + 1 - i]]

\* s[:k] for k >= 0
FirstK(s, k) == IF k >= Len(s) THEN s ELSE SubSeq(s, 1, k)

\* VectorStore.similarity_search on a refreshed matrix: (document, score) pairs
similarity_search(docs, embs, query_embedding, k, score_threshold) ==
    IF docs = <<>> \/ embs = <<>> THEN <<>>
    ELSE LET similarities == [i \in 1..Len(embs) |-> Dot(embs[i], query_embedding)]
             kept == SelectSeq(Positions(Len(embs)),
                               LAMBDA i : \/ score_threshold = <<>>
                                          \/ similarities[i] >= score_threshold[1])
             top_indices == Reverse(LastK(argsort(kept, similarities), k))
         IN [j \in 1..Len(top_indices) |->
                [document |-> docs[top_indices[j]],
                 score |-> similarities[top_indices[j]]]]

\* the loop of filter_by_metadata and of HybridSearcher.search: every
\* key/value pair of the filter is in the metadata
MatchesFilters(metadata, filters) == \A f \in filters : f \in metadata

(***************************************************************************)
(* Hybrid searcher (src/src/rag/embeddings/hybrid.py).                     *)
(*                                                                         *)
(* A text is the set of its terms.  The TF-IDF matrix is modelled by the   *)
(* term sets of the texts it was fitted on, its vocabulary by their union, *)
(* and the similarity of a row to a query by the cosine of the two term    *)
(* sets with every term weighted alike, in hundredths: it is 0 exactly     *)
(* when the row shares no vocabulary term with the query.  Weights are in  *)
(* units of 1e-7 and combined scores in units of 1e-9.                     *)
(***************************************************************************)
WeightOne == 10000000      \* the weight 1.0
DefaultSemanticWeight == 7000000   \* 0.7
DefaultKeywordWeight == 3000000    \* 0.3
WeightTolerance == 10      \* 1e-6
ScoreOne == 100            \* the score 1.0
ScoreFloor == 1            \* the score 0.01

Abs(x) == IF x < 0 THEN 0 - x ELSE x

\* mutant: only the range of each weight is checked
WeightsValid_range_only(a, b) ==
    /\ 0 <= a /\ a <= WeightOne
    /\ 0 <= b /\ b <= WeightOne

\* the two checks of __init__ and adjust_weights: neither raises
WeightsValid(a, b) ==
    /\ 0 <= a /\ a <= WeightOne
    /\ 0 <= b /\ b <= WeightOne
    /\ Abs(a + b - WeightOne) <= WeightTolerance

\* vectorizer.fit_transform(texts); None when there is no document
FitTransform(docs) == [i \in 1..Len(docs) |-> docs[i].text]

\* HybridSearcher._refresh_tfidf: the matrix after the call
refresh_tfidf(docs, matrix, needs_refresh) ==
    IF needs_refresh THEN FitTransform(docs) ELSE matrix

Vocabulary(matrix) == UNION {matrix[i] : i \in 1..Len(matrix)}

ISqrt(x) == CHOOSE r \in 0..ScoreOne : r * r <= x /\ x < (r + 1) * (r + 1)

\* the product of one L2-normalised row with the L2-normalised query vector
RowSimilarity(row, query_terms) ==
    LET shared == Cardinality(row \cap query_terms)
    IN IF shared = 0 THEN 0
       ELSE ISqrt((ScoreOne * ScoreOne * shared * shared)
                     \div (Cardinality(row) * Cardinality(query_terms)))

\* HybridSearcher._compute_keyword_scores on a refreshed matrix
compute_keyword_scores(matrix, query_text) ==
    IF matrix = <<>> THEN <<>>
    ELSE [i \in 1..Len(matrix) |->
             RowSimilarity(matrix[i], query_text \cap Vocabulary(matrix))]

\* the soft normalisation of a keyword score above 1.0
NormalizeKeyword(keyword_score) ==
    IF keyword_score > ScoreOne
    THEN (ScoreOne * keyword_score) \div (ScoreOne + keyword_score)
    ELSE keyword_score

\* semantic_scores.get(doc.id, 0.0)
SemanticScoreGet(semantic_results, id) ==
    IF \E j \in 1..Len(semantic_results) : semantic_results[j].document.id = id
    THEN semantic_results[CHOOSE j \in 1..Len(semantic_results) :
            /\ semantic_results[j].document.id = id
            /\ \A l \in (j + 1)..Len(semantic_results) :
                  semantic_results[l].document.id # id].score
    ELSE 0

SearchResult(document, semantic_score, keyword_score, combined_score) ==
    [id |-> document.id, semantic_score |-> semantic_score,
     keyword_score |-> keyword_score, combined_score |-> combined_score]

\* insert a result into a list ordered by descending combined score, after
\* the results of equal score (list.sort with reverse=True is stable)
RECURSIVE InsertDescending(_, _)
InsertDescending(sorted, r) ==
    IF sorted = <<>> THEN <<r>>
    ELSE IF r.combined_score > Head(sorted).combined_score
         THEN <<r>> \o sorted
         ELSE <<Head(sorted)>> \o InsertDescending(Tail(sorted), r)

RECURSIVE SortResults(_, _)
SortResults(todo, sorted) ==
    IF todo = <<>> THEN sorted
    ELSE SortResults(Tail(todo), InsertDescending(sorted, Head(todo)))

\* mutant: the test of the two scores dropped
SignificantScore_always(semantic_score, keyword_score) == TRUE

\* "include if either score is significant" (line 128)
SignificantScore(semantic_score, keyword_score) ==
    semantic_score > ScoreFloor \/ keyword_score > ScoreFloor

\* the loop over zip(documents, keyword_scores), from pair i on
RECURSIVE CombineLoop(_, _, _, _, _, _, _, _, _)
CombineLoop(i, docs, keyword_scores, semantic_results, sw, kw, score_threshold, metadata_filters, results) ==
    IF i > Len(docs) \/ i > Len(keyword_scores) THEN results
    ELSE LET doc == docs[i]
             semantic_score == SemanticScoreGet(semantic_results, doc.id)
             keyword_score == NormalizeKeyword(keyword_scores[i])
             combined_score == sw * semantic_score + kw * keyword_score
             included ==
                /\ SignificantScore(semantic_score, keyword_score)
                /\ ~(score_threshold # <<>> /\ combined_score < score_threshold[1])
                /\ ~(metadata_filters # {}
                       /\ ~MatchesFilters(doc.metadata, metadata_filters))
         IN CombineLoop(i + 1, docs, keyword_scores, semantic_results, sw, kw,
                        score_threshold, metadata_filters,
                        IF included
                        THEN Append(results,
                                    SearchResult(doc, semantic_score, keyword_score,
                                                 combined_score))
                        ELSE results)

\* mutant: the list cut to k before it is sorted
search_cut_before_sort(docs, embs, matrix, sw, kw, query, k, score_threshold, metadata_filters) ==
    LET semantic_results == similarity_search(docs, embs, query.embedding,
                                              Len(docs), <<>>)
        keyword_scores == compute_keyword_scores(matrix, query.text)
        results == CombineLoop(1, docs, keyword_scores, semantic_results, sw, kw,
                               score_threshold, metadata_filters, <<>>)
    IN SortResults(FirstK(results, k), <<>>)

\* HybridSearcher.search on the refreshed matrices
search(docs, embs, matrix, sw, kw, query, k, score_threshold, metadata_filters) ==
    LET semantic_results == similarity_search(docs, embs, query.embedding,
                                              Len(docs), <<>>)
        keyword_scores == compute_keyword_scores(matrix, query.text)
        results == CombineLoop(1, docs, keyword_scores, semantic_results, sw, kw,
                               score_threshold, metadata_filters, <<>>)
    IN FirstK(SortResults(results, <<>>), k)

(***************************************************************************)
(* The actions of the vector store and the hybrid searcher.                *)
(***************************************************************************)
\* mutant: add leaves the dirty flag as it is
Add_keep_flag(doc) ==
    /\ Len(documents) < MaxDocs
    /\ \A i \in 1..Len(documents) : documents[i].id # doc.id
    /\ documents' = Append(documents, doc)
    /\ ret' = [op |-> "add"]
    /\ UNCHANGED <<embeddings, vs_needs_refresh, hybVars, selVars, procVars, repoVars, idxVars,
                   intentVars, insightVars>>

\* VectorStore.add
Add(doc) ==
    /\ Len(documents) < MaxDocs
    /\ \A i \in 1..Len(documents) : documents[i].id # doc.id
    /\ documents' = Append(documents, doc)
    /\ vs_needs_refresh' = TRUE
    /\ ret' = [op |-> "add"]
    /\ UNCHANGED <<embeddings, hybVars, selVars, procVars, repoVars, idxVars,
                   intentVars, insightVars>>

\* VectorStore.add_many
AddMany(docs) ==
    /\ Len(documents) + Len(docs) <= MaxDocs
    /\ \A i \in 1..Len(docs) :
          /\ \A j \in 1..Len(documents) : documents[j].id # docs[i].id
          /\ \A j \in 1..(i - 1) : docs[j].id # docs[i].id
    /\ documents' = documents \o docs
    /\ vs_needs_refresh' = TRUE
    /\ ret' = [op |-> "add_many"]
    /\ UNCHANGED <<embeddings, hybVars, selVars, procVars, repoVars, idxVars,
                   intentVars, insightVars>>

\* VectorStore.clear
Clear ==
    /\ documents' = <<>>
    /\ embeddings' = <<>>
    /\ vs_needs_refresh' = TRUE
    /\ ret' = [op |-> "clear"]
    /\ UNCHANGED <<hybVars, selVars, procVars, repoVars, idxVars,
                   intentVars, insightVars>>

\* VectorStore.similarity_search
SimilaritySearch(query_embedding, k, score_threshold) ==
    LET embs == refresh_embeddings(documents, embeddings, vs_needs_refresh)
    IN /\ embeddings' = embs
       /\ vs_needs_refresh' = FALSE
       /\ ret' = Result("similarity_search",
                        [query_embedding |-> query_embedding, k |-> k,
                         score_threshold |-> score_threshold],
                        similarity_search(documents, embs, query_embedding, k,
                                          score_threshold))
       /\ UNCHANGED <<documents, hybVars, selVars, procVars, repoVars, idxVars,
                      intentVars, insightVars>>

\* HybridSearcher.search
Search(query, k, score_threshold, metadata_filters) ==
    LET embs == refresh_embeddings(documents, embeddings, vs_needs_refresh)
        matrix == refresh_tfidf(documents, tfidf_matrix, hs_needs_refresh)
    IN /\ embeddings' = embs
       /\ vs_needs_refresh' = FALSE
       /\ tfidf_matrix' = matrix
       /\ hs_needs_refresh' = FALSE
       /\ ret' = Result("search",
                        [query |-> query, k |-> k, score_threshold |-> score_threshold,
                         metadata_filters |-> metadata_filters],
                        search(documents, embs, matrix, semantic_weight, keyword_weight,
                               query, k, score_threshold, metadata_filters))
       /\ UNCHANGED <<documents, semantic_weight, keyword_weight,
                      selVars, procVars, repoVars, idxVars,
                   intentVars, insightVars>>

\* HybridSearcher.adjust_weights
AdjustWeights(a, b) ==
    /\ IF WeightsValid(a, b)
       THEN /\ semantic_weight' = a
            /\ keyword_weight' = b
            /\ ret' = [op |-> "adjust_weights", args |-> <<a, b>>, raised |-> "none"]
       ELSE /\ UNCHANGED <<semantic_weight, keyword_weight>>
            /\ ret' = [op |-> "adjust_weights", args |-> <<a, b>>,
                       raised |-> "ValueError"]
    /\ UNCHANGED <<tfidf_matrix, hs_needs_refresh, storeVars, selVars, procVars, repoVars, idxVars,
                   intentVars, insightVars>>

\* HybridSearcher.__init__ over the same store: the new searcher replaces the
\* old one unless the constructor raises
NewHybridSearcher(a, b) ==
    /\ IF WeightsValid(a, b)
       THEN /\ semantic_weight' = a
            /\ keyword_weight' = b
            /\ tfidf_matrix' = <<>>
            /\ hs_needs_refresh' = TRUE
            /\ ret' = [op |-> "HybridSearcher", args |-> <<a, b>>, raised |-> "none"]
       ELSE /\ UNCHANGED hybVars
            /\ ret' = [op |-> "HybridSearcher", args |-> <<a, b>>,
                       raised |-> "ValueError"]
    /\ UNCHANGED <<storeVars, selVars, procVars, repoVars, idxVars,
                   intentVars, insightVars>>

\* HybridSearcher.on_vector_store_update; no method of VectorStore calls it
OnVectorStoreUpdate ==
    /\ hs_needs_refresh' = TRUE
    /\ ret' = [op |-> "on_vector_store_update"]
    /\ UNCHANGED <<semantic_weight, keyword_weight, tfidf_matrix, storeVars,
                   selVars, procVars, repoVars, idxVars,
                   intentVars, insightVars>>

(***************************************************************************)
(* Intent analyzer (src/src/rag/intent/analyzer.py).                       *)
(*                                                                         *)
(* A text (a query, a configured value or alias, a cue) is the sequence of *)
(* its fragments; "x in text" holds where the fragments of x occur next to *)
(* one another in the text.  A regex pattern is a fragment matched without *)
(* regard to case; its matches are the fragments of the query it equals,   *)
(* from left to right.  The entity configuration is a sequence of          *)
(* [type, values, aliases, patterns] in the order of the file, the         *)
(* examples a sequence of [intent_type, embeddings]: the embeddings the    *)
(* model gives the example queries of the intent.  A confidence is in      *)
(* thousandths.                                                            *)
(***************************************************************************)
UpperToLower ==
    [BOGO |-> "bogo", Sale |-> "sale", Event |-> "event", Days |-> "days", Week |-> "week"]

\* str.lower on a fragment and on a text
Lower(fragment) ==
    IF fragment \in DOMAIN UpperToLower THEN UpperToLower[fragment] ELSE fragment

lower(text) == [i \in 1..Len(text) |-> Lower(text[i])]

\* part in text
Contains(text, part) ==
    \E i \in 1..(Len(text) - Len(part) + 1) : SubSeq(text, i, i + Len(part) - 1) = part

\* text.startswith(part)
StartsWith(text, part) == IsPrefix(part, text)

InList(x, list) == \E i \in 1..Len(list) : list[i] = x

\* the matches of one pattern, from fragment i of the query on (lines 118-123)
RECURSIVE PatternLoop(_, _, _, _)
PatternLoop(pattern, query, i, found) ==
    IF i > Len(query) THEN found
    ELSE PatternLoop(pattern, query, i + 1,
                     IF Lower(query[i]) = Lower(pattern) /\ ~InList(<<query[i]>>, found)
                     THEN Append(found, <<query[i]>>)
                     ELSE found)

RECURSIVE PatternsLoop(_, _, _)
PatternsLoop(patterns, query, found) ==
    IF patterns = <<>> THEN found
    ELSE PatternsLoop(Tail(patterns), query, PatternLoop(Head(patterns), query, 1, found))

\* the list of one entity type (lines 103-123): values, then aliases, then
\* pattern matches
EntityValues(query, config) ==
    LET query_lower == lower(query)
        from_values == SelectSeq(config.values,
                                 LAMBDA value : Contains(query_lower, lower(value)))
        matched_aliases == SelectSeq(config.aliases,
                                     LAMBDA a : Contains(query_lower, lower(a.alias)))
        from_aliases == [i \in 1..Len(matched_aliases) |-> matched_aliases[i].value]
    IN PatternsLoop(config.patterns, query, from_values \o from_aliases)

\* IntentAnalyzer._extract_entities: a type is a key when its list is not empty
extract_entities(query, entity_types) ==
    LET found == [i \in 1..Len(entity_types) |-> EntityValues(query, entity_types[i])]
        keys == {entity_types[i].type : i \in {j \in 1..Len(entity_types) : found[j] # <<>>}}
    IN [type \in keys |->
           found[CHOOSE i \in 1..Len(entity_types) : entity_types[i].type = type]]

\* mutant: the metric trend rule tried before the comparison rule
match_intent_rules_trend_first(query, entities) ==
    LET query_lower == lower(query)
    IN IF /\ "metric" \in DOMAIN entities
          /\ \E x \in {<<"trend">>, <<"over", "time">>, <<"changed">>, <<"history">>} :
                Contains(query_lower, x)
       THEN <<"metric_trend", 900>>
       ELSE IF \/ "comparison_targets" \in DOMAIN entities
               \/ \E x \in {<<"compare">>, <<"vs">>, <<"versus">>} : Contains(query_lower, x)
       THEN <<"comparative_analysis", 900>>
       ELSE IF "effect" \in DOMAIN entities /\ "time_period" \in DOMAIN entities
       THEN <<"causal_analysis", 900>>
       ELSE IF \/ "objective" \in DOMAIN entities
               \/ \E x \in {<<"how", "can">>, <<"what", "should">>, <<"suggest">>} :
                     StartsWith(query_lower, x)
       THEN <<"recommendation", 900>>
       ELSE IF "category" \in DOMAIN entities
       THEN <<"category_analysis", 800>>
       ELSE <<>>

\* IntentAnalyzer._match_intent_rules: (intent_type, confidence), or the empty
\* sequence for None
match_intent_rules(query, entities) ==
    LET query_lower == lower(query)
    IN IF \/ "comparison_targets" \in DOMAIN entities
          \/ \E x \in {<<"compare">>, <<"vs">>, <<"versus">>} : Contains(query_lower, x)
       THEN <<"comparative_analysis", 900>>
       ELSE IF "effect" \in DOMAIN entities /\ "time_period" \in DOMAIN entities
       THEN <<"causal_analysis", 900>>
       ELSE IF \/ "objective" \in DOMAIN entities
               \/ \E x \in {<<"how", "can">>, <<"what", "should">>, <<"suggest">>} :
                     StartsWith(query_lower, x)
       THEN <<"recommendation", 900>>
       ELSE IF /\ "metric" \in DOMAIN entities
               /\ \E x \in {<<"trend">>, <<"over", "time">>, <<"changed">>, <<"history">>} :
                     Contains(query_lower, x)
       THEN <<"metric_trend", 900>>
       ELSE IF "category" \in DOMAIN entities
       THEN <<"category_analysis", 800>>
       ELSE <<>>

\* IntentAnalyzer._initialize_example_embeddings: the intents that have examples
example_embeddings(examples) == SelectSeq(examples, LAMBDA e : e.embeddings # <<>>)

MaxOf(S) == CHOOSE x \in S : \A y \in S : y <= x

\* the loop of _match_intent_semantic over the intents, in the order of the file
RECURSIVE SemanticLoop(_, _, _, _)
SemanticLoop(todo, query_embedding, best_score, best_intent) ==
    IF todo = <<>> THEN <<best_intent, best_score>>
    ELSE LET embs == Head(todo).embeddings
             max_similarity == MaxOf({Dot(embs[i], query_embedding) : i \in 1..Len(embs)})
         IN IF max_similarity > best_score
            THEN SemanticLoop(Tail(todo), query_embedding, max_similarity,
                              Head(todo).intent_type)
            ELSE SemanticLoop(Tail(todo), query_embedding, best_score, best_intent)

\* IntentAnalyzer._match_intent_semantic; similarities are in hundredths
match_intent_semantic(query_embedding, examples) ==
    LET best == SemanticLoop(examples, query_embedding, 0 - 100, "general_query")
    IN <<best[1], 5 * (best[2] + 100)>>

\* IntentAnalyzer._determine_intent; embedding is the empty sequence when the
\* analyzer has no embedding model, else the embedding of the query
determine_intent(query, entities, embedding, examples) ==
    LET intent_match == match_intent_rules(query, entities)
    IN IF intent_match # <<>> THEN intent_match
       ELSE IF embedding # <<>> /\ example_embeddings(examples) # <<>>
       THEN match_intent_semantic(embedding[1], example_embeddings(examples))
       ELSE <<"general_query", 500>>

\* mutant: three entity values are already complex
assess_complexity_from_three(intent_type, entities) ==
    LET entity_count == SumOver([type \in DOMAIN entities |-> Len(entities[type])],
                                DOMAIN entities)
        has_multiple_times ==
            "time_period" \in DOMAIN entities /\ Len(entities["time_period"]) > 1
    IN IF \/ intent_type \in {"comparative_analysis", "causal_analysis"}
          \/ entity_count >= 3
          \/ has_multiple_times
       THEN "complex"
       ELSE IF entity_count > 1 THEN "medium" ELSE "simple"

\* IntentAnalyzer._assess_complexity
assess_complexity(intent_type, entities) ==
    LET entity_count == SumOver([type \in DOMAIN entities |-> Len(entities[type])],
                                DOMAIN entities)
        has_multiple_times ==
            "time_period" \in DOMAIN entities /\ Len(entities["time_period"]) > 1
    IN IF \/ intent_type \in {"comparative_analysis", "causal_analysis"}
          \/ entity_count > 3
          \/ has_multiple_times
       THEN "complex"
       ELSE IF entity_count > 1 THEN "medium" ELSE "simple"

\* IntentAnalyzer.analyze
analyze(query, config, embedding) ==
    LET entities == extract_entities(query, config.entity_types)
        intent == determine_intent(query, entities, embedding, config.examples)
    IN [intent_type |-> intent[1],
        confidence |-> intent[2],
        entities |-> entities,
        complexity |-> assess_complexity(intent[1], entities)]

\* IntentAnalyzer.analyze on the query of the state
Analyze ==
    /\ ret' = Result("analyze", <<ia_query>>, analyze(ia_query, ia_config, ia_embedding))
    /\ UNCHANGED <<intentVars, storeVars, hybVars, insightVars, selVars, procVars, repoVars, idxVars>>

(***************************************************************************)
(* Domain knowledge (src/src/rag/domain_knowledge/context.py) as the        *)
(* context selector reads it (selector.py lines 318-329).                  *)
(*                                                                         *)
(* A Python value handed to dict.get is modelled with its type: a str or   *)
(* a list.  A key of a dict must be hashable; a list is not.  The          *)
(* explanatory texts are modelled by their keys.                           *)
(***************************************************************************)
PyStr(text) == [type |-> "str", value |-> text]
PyList(items) == [type |-> "list", value |-> items]

\* the keys of domain_context["category_contexts"] and ["metric_contexts"]
\* that the analyzer's configurations can name
CategoryContexts == {<<"BOGO">>}
MetricContexts == {<<"revenue">>}

\* dict.get(key, ""): TypeError on an unhashable key, the entry or ""
DictGet(keys, key) ==
    IF key.type = "list" THEN [raised |-> "TypeError", value |-> <<>>]
    ELSE [raised |-> "none", value |-> IF key.value \in keys THEN key.value ELSE <<>>]

\* DomainKnowledgeManager.get_relevant_concepts on the query the selector
\* passes: intent_analysis has no "query" key, so the query is "" and no
\* concept name is found in it
get_relevant_concepts(query) == <<>>

\* DomainKnowledgeManager.get_context_for_query: the mapping it returns, or
\* the exception that leaves it
get_context_for_query(query, intent) ==
    LET wants_category == intent.type = "category_analysis"
                             /\ "category" \in DOMAIN intent.params
        wants_metric == intent.type \in {"metric_impact", "metric_trend"}
                           /\ "metric" \in DOMAIN intent.params
        category_context == DictGet(CategoryContexts, intent.params["category"])
        metric_context == DictGet(MetricContexts, intent.params["metric"])
    IN IF wants_category /\ category_context.raised # "none"
       THEN [raised |-> category_context.raised]
       ELSE IF wants_metric /\ metric_context.raised # "none"
       THEN [raised |-> metric_context.raised]
       ELSE [raised |-> "none",
             value |->
                [k \in {c \in {"category_context"} :
                           wants_category /\ category_context.value # <<>>} \cup
                       {c \in {"metric_context"} :
                           wants_metric /\ metric_context.value # <<>>} |->
                    IF k = "category_context" THEN category_context.value
                    ELSE metric_context.value]]

\* ContextSelector._get_domain_knowledge: the entities of the analysis are
\* passed as they are, each a list of values
get_domain_knowledge(intent_analysis) ==
    get_context_for_query(<<>>,
        [type |-> intent_analysis.intent_type,
         params |-> [t \in DOMAIN intent_analysis.entities |->
                        PyList(intent_analysis.entities[t])]])

\* select_context reaching the domain_knowledge rule of the policy with the
\* analysis analyze returned: the handler is called outside any try block
GetDomainKnowledge ==
    /\ ret.op = "analyze"
    /\ LET r == get_domain_knowledge(ret.value)
       IN ret' = IF r.raised = "none"
                 THEN Result("get_domain_knowledge", <<ret.value>>, r.value)
                 ELSE [op |-> "get_domain_knowledge", args |-> <<ret.value>>,
                       raised |-> r.raised]
    /\ UNCHANGED <<intentVars, storeVars, hybVars, insightVars, selVars, procVars,
                   repoVars, idxVars>>

(***************************************************************************)
(* Time windows of the context selector (selector.py lines 361-390).       *)
(*                                                                         *)
(* A window specification is modelled by the sequence of the parts that    *)
(* window_spec.split() gives; now and the bounds of the window are whole   *)
(* days.                                                                   *)
(***************************************************************************)
\* the strings int() accepts, with their values; it raises ValueError on
\* every other string
IntLiterals == { <<"3", 3>>, <<"0", 0>>, <<"12", 12>>, <<"+1", 1>>, <<"-2", 0 - 2>> }

\* int(text): the value, or the empty sequence when int raises ValueError
int(text) ==
    IF \E l \in IntLiterals : l[1] = text
    THEN <<(CHOOSE l \in IntLiterals : l[1] = text)[2]>>
    ELSE <<>>

\* the days of one unit (lines 374-385); 0: the unit is not supported
UnitDays(unit) ==
    IF unit \in {"day", "days"} THEN 1
    ELSE IF unit \in {"week", "weeks"} THEN 7
    ELSE IF unit \in {"month", "months"} THEN 30
    ELSE IF unit \in {"year", "years"} THEN 365
    ELSE 0

\* ContextSelector._parse_time_window
parse_time_window(parts, today) ==
    IF Len(parts) # 2 THEN [raised |-> "ValueError"]
    ELSE IF int(parts[1]) = <<>> THEN [raised |-> "ValueError"]
    ELSE LET number == int(parts[1])[1]
             unit == Lower(parts[2])
         IN IF UnitDays(unit) = 0 THEN [raised |-> "ValueError"]
            ELSE [raised |-> "none",
                  value |-> [start |-> today - number * UnitDays(unit), end |-> today]]

\* ContextSelector._parse_time_window on the specification of the state
ParseTimeWindow ==
    /\ LET r == parse_time_window(window_spec, now)
       IN ret' = IF r.raised = "none"
                 THEN Result("parse_time_window", <<window_spec, now>>, r.value)
                 ELSE [op |-> "parse_time_window", args |-> <<window_spec, now>>,
                       raised |-> r.raised]
    /\ UNCHANGED <<selVars, procVars, repoVars, idxVars, extVars>>

\* ContextSelector._trim_context(trim_data, trim_limit) on a collection
TrimContext ==
    /\ ret = NoCall
    /\ ret' = Result("trim_context", <<trim_data, trim_limit>>,
                     trim_context(trim_data, trim_limit))
    /\ UNCHANGED <<selVars, procVars, repoVars, idxVars, extVars>>

(***************************************************************************)
(* Text processor (src/src/rag/embeddings/processor.py).                   *)
(*                                                                         *)
(* A text is the sequence of its characters; "nl" is the newline.          *)
(* Positions are Python's: the first character is at 0.  The chunks        *)
(* appended by split_into_chunks are kept as the set of their              *)
(* (start_char, end_char) pairs.                                           *)
(***************************************************************************)
DefaultChunkSize == 500
DefaultChunkOverlap == 50
DefaultMinChunkSize == 50
ParagraphReach == 50
SentenceReach == 30
PunctReach == 20

\* TextProcessor(): the defaults of __init__
DefaultProcessor ==
    [chunk_size |-> DefaultChunkSize, chunk_overlap |-> DefaultChunkOverlap,
     min_chunk_size |-> DefaultMinChunkSize, clean_text |-> TRUE]

Whitespace == {" ", "nl"}

\* re.sub(r'\s+', ' ', text): every run of whitespace becomes one space
CollapseWhitespace(text) ==
    LET first == SelectSeq([i \in 1..Len(text) |-> i],
                           LAMBDA i : \/ text[i] \notin Whitespace
                                      \/ i = 1
                                      \/ text[i - 1] \notin Whitespace)
    IN [k \in 1..Len(first) |->
           IF text[first[k]] \in Whitespace THEN " " ELSE text[first[k]]]

\* str.strip on a text whose whitespace is collapsed
Strip(text) ==
    LET lo == IF text # <<>> /\ text[1] = " " THEN 2 ELSE 1
        hi == IF text # <<>> /\ text[Len(text)] = " " THEN Len(text) - 1 ELSE Len(text)
    IN SubSeq(text, lo, hi)

\* TextProcessor.clean (the texts of the model hold no quotes or dashes)
clean(text, clean_text) ==
    IF ~clean_text THEN text ELSE Strip(CollapseWhitespace(text))

\* a slice bound as str.find and slicing read it: negative bounds count from
\* the end, and every bound is clipped to 0..len
SliceBound(i, n) ==
    IF i < 0 THEN (IF i + n < 0 THEN 0 ELSE i + n)
    ELSE IF i > n THEN n ELSE i

\* text.find(sub, lo, hi): the lowest position of sub within text[lo:hi], or -1
find(text, sub, lo, hi) ==
    LET a == SliceBound(lo, Len(text))
        b == SliceBound(hi, Len(text))
        hits == {i \in a..(b - Len(sub)) :
                    \A j \in 1..Len(sub) : text[i + j] = sub[j]}
    IN IF hits = {} THEN 0 - 1
       ELSE CHOOSE i \in hits : \A l \in hits : i <= l

\* len(text[lo:hi])
SliceLen(n, lo, hi) ==
    LET a == SliceBound(lo, n)
        b == SliceBound(hi, n)
    IN IF b > a THEN b - a ELSE 0

\* the loop over [',', ';', ':', ' '] of _find_break_point
RECURSIVE PunctLoop(_, _, _)
PunctLoop(puncts, text, pos) ==
    IF puncts = <<>> THEN pos
    ELSE LET next_punct == find(text, <<Head(puncts)>>, pos - PunctReach, pos + PunctReach)
         IN IF next_punct # 0 - 1
            THEN next_punct + (IF Head(puncts) # " " THEN 1 ELSE 0)
            ELSE PunctLoop(Tail(puncts), text, pos)

\* TextProcessor._find_break_point
find_break_point(text, pos) ==
    LET next_para == find(text, <<"nl", "nl">>, pos - ParagraphReach, pos + ParagraphReach)
        next_sent == find(text, <<".", " ">>, pos - SentenceReach, pos + SentenceReach)
    IN IF next_para # 0 - 1 THEN next_para
       ELSE IF next_sent # 0 - 1 THEN next_sent + 1
       ELSE PunctLoop(<<",", ";", ":", " ">>, text, pos)

\* TextProcessor.split_into_chunks up to the while loop (lines 77-92)
SplitIntoChunks ==
    /\ tp_pc = "call"
    /\ LET text == clean(tp_text, tp_config.clean_text)
       IN /\ tp_text' = text
          /\ IF Len(text) <= tp_config.chunk_size
             THEN /\ tp_chunks' = {<<0, Len(text)>>}
                  /\ tp_pc' = "done"
             ELSE /\ tp_chunks' = {}
                  /\ tp_pc' = "loop"
    /\ tp_start' = 0
    /\ UNCHANGED <<tp_config, selVars, repoVars, idxVars, extVars, ret>>

\* one test of the while condition, and one pass through the loop body when
\* it holds (lines 94-118)
ChunkStep ==
    /\ tp_pc = "loop"
    /\ IF tp_start < Len(tp_text)
       THEN LET target == tp_start + tp_config.chunk_size
                last == target >= Len(tp_text)
                end == IF last THEN target ELSE find_break_point(tp_text, target)
                chunk_len == IF last THEN SliceLen(Len(tp_text), tp_start, Len(tp_text))
                             ELSE SliceLen(Len(tp_text), tp_start, end)
            IN /\ tp_chunks' = IF chunk_len >= tp_config.min_chunk_size
                               THEN tp_chunks \cup {<<tp_start, end>>}
                               ELSE tp_chunks
               /\ tp_start' = end - tp_config.chunk_overlap
               /\ tp_pc' = "loop"
       ELSE /\ tp_pc' = "done"
            /\ UNCHANGED <<tp_start, tp_chunks>>
    /\ UNCHANGED <<tp_config, tp_text, selVars, repoVars, idxVars, extVars, ret>>

(***************************************************************************)
(* Insight generation (src/src/rag/core.py with the trend and category     *)
(* analyses of src/src/rag/analysis/analyzer.py), with no text generation  *)
(* service (llm_service is None).                                          *)
(*                                                                         *)
(* The EnhancedRAGSystem owns the IndexBuilder of the index variables.     *)
(* Its TF-IDF matrix is modelled like that of the hybrid searcher, by the  *)
(* descriptions it was fitted on.  The returned string is the sequence of  *)
(* its lines; the digits a number is printed with are left out of a line.  *)
(***************************************************************************)
ConventionalMetricList == <<"revenue", "dau", "retention", "session_length",
                            "conversion_rate">>
DefaultWeeks == 4          \* weeks of analyze_metric_trends
DefaultTopK == 5           \* top_k of search_similar_changes

\* the sum and the mean of percent changes (floats: +inf absorbs)
FracAdd(x, y) ==
    IF x.den = 0 THEN x
    ELSE IF y.den = 0 THEN y
    ELSE [num |-> x.num * y.den + y.num * x.den, den |-> x.den * y.den]

RECURSIVE FracSum(_)
FracSum(s) == IF s = <<>> THEN Zero ELSE FracAdd(Head(s), FracSum(Tail(s)))

FracMean(s) ==
    LET total == FracSum(s)
    IN IF total.den = 0 THEN total ELSE [num |-> total.num, den |-> total.den * Len(s)]

\* EnhancedRAGSystem._build_embeddings; None when the repository is empty
build_embeddings(chs) == [i \in 1..Len(chs) |-> chs[i].description]

\* EnhancedRAGSystem.search_similar_changes
search_similar_changes(query, top_k) ==
    IF rag_embeddings = <<>>
    THEN [raised |-> "NotFittedError"]
    ELSE LET query_terms == {Lower(query[i]) : i \in 1..Len(query)}
                                \cap Vocabulary(rag_embeddings)
             similarities == [i \in 1..Len(rag_embeddings) |->
                                 RowSimilarity(rag_embeddings[i], query_terms)]
             negated == [i \in 1..Len(similarities) |-> 0 - similarities[i]]
             top_indices == FirstK(argsort(Positions(Len(negated)), negated), top_k)
         IN [raised |-> "none",
             value |-> [k \in 1..Len(top_indices) |->
                          [change |-> changes[top_indices[k]],
                           metrics |-> get_metrics_for_change(
                                           metrics, changes[top_indices[k]].change_id),
                           similarity_score |-> similarities[top_indices[k]]]]]

\* the intents _determine_query_intent can return: the categories are tried
\* in the iteration order of a set, so any category named in the query may
\* be the one found; then the metrics in list order
QueryIntents(query) ==
    LET query_lower == lower(query)
        named == {changes[i].category : i \in {j \in 1..Len(changes) :
                      Contains(query_lower, <<Lower(changes[j].category)>>)}}
        metric_hits == SelectSeq(ConventionalMetricList,
                                 LAMBDA metric : Contains(query_lower, <<metric>>))
    IN IF named # {}
       THEN {[type |-> "category_analysis", param |-> category] : category \in named}
       ELSE IF metric_hits # <<>>
       THEN {[type |-> "metric_trend", param |-> Head(metric_hits)]}
       ELSE {[type |-> "general_query", param |-> ""]}

\* the measurements of the entries of a search result, in order
RECURSIVE FlattenMetrics(_)
FlattenMetrics(entries) ==
    IF entries = <<>> THEN <<>>
    ELSE Head(entries).metrics \o FlattenMetrics(Tail(entries))

PercentChanges(ms) == [i \in 1..Len(ms) |-> ms[i].percent_change]

\* ChangeAnalyzer.analyze_category_performance without a text generation
\* service; of the statistics of a metric the model keeps the average
analyze_category_performance(category) ==
    LET category_changes == search_by_category(category)
        measured == FlattenMetrics(category_changes)
        impacts(metric_name) ==
            PercentChanges(SelectSeq(measured, LAMBDA m : m.metric_name = metric_name))
        with_impacts == SelectSeq(ConventionalMetricList,
                                  LAMBDA metric_name : impacts(metric_name) # <<>>)
    IN IF category_changes = <<>>
       THEN [raised |-> "none", error |-> TRUE]
       ELSE IF \E i \in 1..Len(measured) :
                  measured[i].metric_name \notin ConventionalMetrics
       THEN [raised |-> "KeyError"]
       ELSE [raised |-> "none", error |-> FALSE,
             metrics_stats |->
                [k \in 1..Len(with_impacts) |->
                    [metric |-> with_impacts[k],
                     average |-> FracMean(impacts(with_impacts[k]))]]]

\* the weeks of a set in descending order
RECURSIVE SortedDescending(_)
SortedDescending(S) ==
    IF S = {} THEN <<>> ELSE <<MaxOf(S)>> \o SortedDescending(S \ {MaxOf(S)})

\* ChangeAnalyzer.analyze_metric_trends without a text generation service: the
\* week and the average percent change of each entry of trend_analysis
analyze_metric_trends(metric_name, weeks) ==
    LET measured(i) == SelectSeq(get_metrics_for_change(metrics, changes[i].change_id),
                                 LAMBDA m : m.metric_name = metric_name)
        week_keys == SortedDescending({YearWeek(changes[temporal_index[k]].timestamp) :
                                           k \in 1..Len(temporal_index)})
        percent_changes(week) ==
            LET hits == SelectSeq(temporal_index,
                                  LAMBDA i : /\ YearWeek(changes[i].timestamp) = week
                                             /\ measured(i) # <<>>)
            IN [k \in 1..Len(hits) |-> Head(measured(hits[k])).percent_change]
        with_values == SelectSeq(FirstK(week_keys, weeks),
                                 LAMBDA week : percent_changes(week) # <<>>)
    IN [k \in 1..Len(with_values) |->
           [week |-> with_values[k],
            avg_percent_change |-> FracMean(percent_changes(with_values[k]))]]

\* EnhancedRAGSystem._generate_basic_insight: the lines of the string
generate_basic_insight(intent, performance, trends) ==
    IF intent.type = "category_analysis" /\ ~performance.error
    THEN <<<<"Analysis of changes:", intent.param>>>>
            \o [k \in 1..Len(performance.metrics_stats) |->
                   <<performance.metrics_stats[k].metric,
                     IF FracGt(performance.metrics_stats[k].average, 0)
                     THEN "increased" ELSE "decreased">>]
    ELSE IF intent.type = "metric_trend"
    THEN <<<<"Trend analysis for:", intent.param>>>>
            \o [k \in 1..Len(trends) |-> <<"Week", trends[k].week>>]
    ELSE <<<<"To get detailed insights, please configure the LLM service by setting the API key.">>>>

\* EnhancedRAGSystem.generate_insight for the intent _determine_query_intent
\* returned: the context is retrieved (the category or metric analysis, then
\* the similar changes), then the fallback string is built
generate_insight(query, intent) ==
    LET performance == analyze_category_performance(intent.param)
        trends == analyze_metric_trends(intent.param, DefaultWeeks)
        similar_changes == search_similar_changes(query, DefaultTopK)
    IN IF intent.type = "category_analysis" /\ performance.raised # "none"
       THEN [raised |-> performance.raised]
       ELSE IF similar_changes.raised # "none"
       THEN [raised |-> similar_changes.raised]
       ELSE [raised |-> "none",
             value |-> generate_basic_insight(intent, performance, trends)]

\* EnhancedRAGSystem.generate_insight
GenerateInsight(query) ==
    /\ \E intent \in QueryIntents(query) :
          LET r == generate_insight(query, intent)
          IN ret' = IF r.raised = "none"
                    THEN Result("generate_insight", <<query>>, r.value)
                    ELSE [op |-> "generate_insight", args |-> <<query>>,
                          raised |-> r.raised]
    /\ UNCHANGED <<insightVars, intentVars, storeVars, hybVars, selVars, procVars, repoVars, idxVars>>

(***************************************************************************)
(* Text generation service (src/src/llm/service.py).  The reply of the     *)
(* external API is an input of the call: a message, or an exception.  A    *)
(* returned string is modelled by its kind.                                *)
(***************************************************************************)
UsageLimit == 50           \* self.usage_limit

\* mutant: the limit test lets the call at the limit through
generate_response_past_limit(is_enabled, usage_count, reply) ==
    IF ~is_enabled
    THEN [raised |-> "none", value |-> "not_configured", api_calls |-> 0,
          usage_count |-> usage_count]
    ELSE IF usage_count = <<>>
    THEN [raised |-> "AttributeError", value |-> "", api_calls |-> 0,
          usage_count |-> usage_count]
    ELSE IF usage_count[1] > UsageLimit
    THEN [raised |-> "none", value |-> "limit_reached", api_calls |-> 0,
          usage_count |-> usage_count]
    ELSE [raised |-> "none",
          value |-> IF reply = "message" THEN "text" ELSE "error",
          api_calls |-> 1,
          usage_count |-> <<usage_count[1] + 1>>]

\* LLMService.generate_response: what it returns or raises, the calls it
\* makes to the external API and the usage counter it leaves
generate_response(is_enabled, usage_count, reply) ==
    IF ~is_enabled
    THEN [raised |-> "none", value |-> "not_configured", api_calls |-> 0,
          usage_count |-> usage_count]
    ELSE IF usage_count = <<>>
    THEN [raised |-> "AttributeError", value |-> "", api_calls |-> 0,
          usage_count |-> usage_count]
    ELSE IF usage_count[1] >= UsageLimit
    THEN [raised |-> "none", value |-> "limit_reached", api_calls |-> 0,
          usage_count |-> usage_count]
    ELSE [raised |-> "none",
          value |-> IF reply = "message" THEN "text" ELSE "error",
          api_calls |-> 1,
          usage_count |-> <<usage_count[1] + 1>>]

\* LLMService.__init__; api_key is the empty sequence when neither the
\* argument nor the environment gives a key
NewLLMService(api_key) ==
    /\ llm_is_enabled' = (api_key # <<>>)
    /\ llm_usage_count' = IF api_key # <<>> THEN <<0>> ELSE <<>>
    /\ ret' = [op |-> "LLMService", args |-> <<api_key>>]
    /\ UNCHANGED <<rag_embeddings, intentVars, storeVars, hybVars, selVars, procVars, repoVars,
                   idxVars>>

\* LLMService.generate_response
GenerateResponse(reply) ==
    /\ LET r == generate_response(llm_is_enabled, llm_usage_count, reply)
       IN /\ llm_usage_count' = r.usage_count
          /\ ret' = [op |-> "generate_response", args |-> <<reply>>,
                     value |-> r.value, raised |-> r.raised, api_calls |-> r.api_calls]
    /\ UNCHANGED <<llm_is_enabled, rag_embeddings, intentVars, storeVars, hybVars,
                   selVars, procVars, repoVars, idxVars>>

\* an LLMService constructed without a key
LLMIdle ==
    /\ llm_is_enabled = FALSE
    /\ llm_usage_count = <<>>

\* a VectorStore and a HybridSearcher as constructed, with the default weights
StoreEmpty ==
    /\ documents = <<>>
    /\ embeddings = <<>>
    /\ vs_needs_refresh = TRUE

SearcherNew ==
    /\ semantic_weight = DefaultSemanticWeight
    /\ keyword_weight = DefaultKeywordWeight
    /\ tfidf_matrix = <<>>
    /\ hs_needs_refresh = TRUE

\* no query under analysis
IntentIdle ==
    /\ ia_query = <<>>
    /\ ia_config = [entity_types |-> <<>>, examples |-> <<>>]
    /\ ia_embedding = <<>>

\* an EnhancedRAGSystem constructed over the empty repository
InsightIdle == rag_embeddings = <<>> /\ LLMIdle

ExtIdle == StoreEmpty /\ SearcherNew /\ IntentIdle /\ InsightIdle

\* the policies of the model: the first n context types in priority order, each
\* required or not
Policies ==
    UNION {{[i \in 1..n |-> [type |-> ContextTypes[i], required |-> req[i]]] :
                req \in [1..n -> BOOLEAN]} : n \in 0..MaxRules}

\* a token limit is not given (0) or at least the reserved margin
TokenLimits == {0} \cup (ReservedTokens..MaxTokens)

\* no text under chunking
ProcIdle ==
    /\ tp_config = DefaultProcessor
    /\ tp_text = <<>>
    /\ tp_start = 0
    /\ tp_chunks = {}
    /\ tp_pc = "idle"

\* no window specification under parsing
WindowIdle ==
    /\ window_spec = <<>>
    /\ now = 0

\* no collection under trimming
TrimIdle ==
    /\ trim_data = <<>>
    /\ trim_limit = 0

\* the components at rest: no select_context call, an empty record store and
\* an IndexBuilder constructed over it
SelIdle ==
    /\ intent_rules = <<>>
    /\ rule_data = <<>>
    /\ max_tokens = 0
    /\ context = <<>>
    /\ used_tokens = 0
    /\ sel_pc = "idle"
    /\ WindowIdle
    /\ TrimIdle

RepoEmpty ==
    /\ changes = <<>>
    /\ metrics = <<>>

IdxEmpty ==
    /\ category_index = build_category_index(<<>>)
    /\ metric_impact_index = build_metric_impact_index(<<>>)
    /\ temporal_index = build_temporal_index(<<>>)
    /\ weekly_buckets = build_weekly_buckets(<<>>)
    /\ tag_index = build_tag_index(<<>>)
    /\ indexed_count = 0

InitSelect ==
    /\ intent_rules \in Policies
    /\ rule_data \in [1..Len(intent_rules) -> SeqsUpTo(ItemTokens, MaxItems)]
    /\ max_tokens \in TokenLimits
    /\ context = <<>>
    /\ used_tokens = 0
    /\ sel_pc = "call"
    /\ ProcIdle
    /\ WindowIdle
    /\ TrimIdle
    /\ RepoEmpty /\ IdxEmpty /\ ExtIdle
    /\ ret = NoCall

SelectContext ==
    /\ sel_pc = "call"
    /\ LET r == select_context(intent_rules, rule_data, max_tokens)
       IN /\ context' = r.context
          /\ used_tokens' = r.used_tokens
    /\ sel_pc' = "done"
    /\ UNCHANGED <<intent_rules, rule_data, max_tokens, window_spec, now,
                   trim_data, trim_limit, procVars,
                   repoVars, idxVars, extVars, ret>>

NextSelect == SelectContext

SpecSelect == InitSelect /\ [][NextSelect]_vars

(***************************************************************************)
(* The record store with its indexes: changes and measurements are added,  *)
(* the indexes are rebuilt and searched in any order.                      *)
(***************************************************************************)
Impact(metric, impact) == [metric |-> metric, impact |-> impact]

\* the changes added in the index specification
IndexChanges ==
    { [timestamp |-> 2, category |-> "BOGO", description |-> {"bogo", "sale"},
       expected_impact |-> <<Impact("revenue", "increase")>>, tags |-> <<"promo">>],
      [timestamp |-> 1, category |-> "BOGO", description |-> {"bogo", "weekend"},
       expected_impact |-> <<Impact("revenue", "increase"), Impact("dau", "neutral")>>,
       tags |-> <<"promo", "weekend">>],
      [timestamp |-> 3, category |-> "Sale", description |-> {"gem", "sale"},
       expected_impact |-> <<Impact("revenue", "decrease")>>, tags |-> <<>>],
      [timestamp |-> 8, category |-> "Sale", description |-> {"weekend", "sale"},
       expected_impact |-> <<>>, tags |-> <<"weekend">>],
      [timestamp |-> 2, category |-> "Event", description |-> {"slot", "launch"},
       expected_impact |-> <<Impact("dau", "increase"), Impact("SLIB", "increase")>>,
       tags |-> <<"promo">>] }

\* the measurements added in the index specification
IndexMetrics ==
    { [change_id |-> 1, metric_name |-> "revenue", before_value |-> 100,
       after_value |-> 120, timestamp |-> 2],
      [change_id |-> 0, metric_name |-> "dau", before_value |-> 0,
       after_value |-> 5, timestamp |-> 3] }

Categories == {"BOGO", "Sale", "Event", "NonexistentCategory"}
Tags == {"promo", "weekend", "nonexistent"}
\* (metric, impact) pairs: declared ones, an unknown metric and an unknown impact
MetricImpactArgs ==
    { <<"revenue", "increase">>, <<"revenue", "decrease">>, <<"dau", "neutral">>,
      <<"dau", "increase">>, <<"SLIB", "increase">>, <<"revenue", "sideways">> }
\* date ranges around the timestamps of IndexChanges: covering, inner, a
\* single day, inverted, up to the latest change, between changes, before all
DateRanges == { <<0, 3>>, <<1, 2>>, <<2, 2>>, <<3, 3>>, <<3, 1>>, <<2, 8>>, <<4, 7>>,
                <<0, 0>> }
ChangeIdArgs == {0, 1, 2}

InitIndex ==
    /\ SelIdle /\ ProcIdle /\ RepoEmpty /\ IdxEmpty /\ ExtIdle
    /\ ret = NoCall

NextIndex ==
    \/ \E c \in IndexChanges :
          AddChange(c.timestamp, c.category, c.description, c.expected_impact, c.tags)
    \/ \E m \in IndexMetrics :
          AddMetric(m.change_id, m.metric_name, m.before_value, m.after_value, m.timestamp)
    \/ BuildAllIndexes
    \/ \E category \in Categories : SearchByCategory(category)
    \/ \E tag \in Tags : SearchByTag(tag)
    \/ \E pair \in MetricImpactArgs : SearchByMetricImpact(pair[1], pair[2])
    \/ \E range \in DateRanges : SearchByDateRange(range[1], range[2])
    \/ \E change_id \in ChangeIdArgs : GetMetricsForChange(change_id)
    \/ \E change_id \in ChangeIdArgs : AnalyzeChangeImpact(change_id)

SpecIndex == InitIndex /\ [][NextIndex]_vars

\* the positions of the entries of a search result (a change's identifier is
\* its position)
ResultPositions(value) == [k \in 1..Len(value) |-> value[k].change.change_id]

InRange(start_date, end_date) ==
    {i \in 1..Len(changes) :
        start_date <= changes[i].timestamp /\ changes[i].timestamp <= end_date}

\* C2: when the indexes were built on the current store, search_by_date_range
\* returns exactly the changes with start <= timestamp <= end, each once, in
\* ascending timestamp order (positions ascending among equal timestamps).
C2_DateRangeExact ==
    (ret.op = "search_by_date_range" /\ indexed_count = Len(changes)) =>
        LET pos == ResultPositions(ret.value)
        IN /\ {pos[k] : k \in 1..Len(pos)} = InRange(ret.args[1], ret.args[2])
           /\ Len(pos) = Cardinality(InRange(ret.args[1], ret.args[2]))
           /\ \A k, l \in 1..Len(pos) :
                k < l =>
                   \/ changes[pos[k]].timestamp < changes[pos[l]].timestamp
                   \/ (/\ changes[pos[k]].timestamp = changes[pos[l]].timestamp
                       /\ pos[k] < pos[l])
           /\ \A k \in 1..Len(pos) :
                ret.value[k].metrics = get_metrics_for_change(metrics, pos[k])

\* a search on a fresh index over changes stored out of time order, that
\* includes a change at exactly start and stops early at a later change
C2_Witness ==
    /\ ret.op = "search_by_date_range"
    /\ indexed_count = Len(changes)
    /\ Len(changes) = 2
    /\ changes[1].timestamp > changes[2].timestamp
    /\ changes[1].timestamp > ret.args[2]
    /\ Len(ret.value) = 1
    /\ ret.value[1].change.timestamp = ret.args[1]

LookupOps ==
    {"search_by_category", "search_by_tag", "search_by_metric_impact",
     "get_metrics_for_change", "analyze_change_impact"}

LookupMissIsValue ==
    /\ (ret.op = "search_by_category" /\ ret.args[1] \notin DOMAIN category_index)
          => (ret.value = <<>> /\ ret.raised = "none")
    /\ (ret.op = "search_by_tag" /\ ret.args[1] \notin DOMAIN tag_index)
          => (ret.value = <<>> /\ ret.raised = "none")
    /\ (/\ ret.op = "search_by_metric_impact"
        /\ \/ ret.args[2] \notin DOMAIN metric_impact_index
           \/ ret.args[1] \notin DOMAIN metric_impact_index[ret.args[2]])
          => (ret.value = <<>> /\ ret.raised = "none")
    /\ (/\ ret.op = "get_metrics_for_change"
        /\ \A k \in 1..Len(metrics) : metrics[k].change_id # ret.args[1])
          => (ret.value = <<>> /\ ret.raised = "none")
    /\ (/\ ret.op = "analyze_change_impact"
        /\ \A i \in 1..Len(changes) : changes[i].change_id # ret.args[1])
          => (ret.value = [error |-> "Change not found"] /\ ret.raised = "none")

\* C8: a lookup with a key the index (or the store) does not hold returns an
\* empty list, or the not-found result for analyze_change_impact, and raises
\* nothing; no lookup changes the store or the indexes.
C8_LookupMissIsValue ==
    /\ []LookupMissIsValue
    /\ [][ret'.op \in LookupOps => UNCHANGED <<repoVars, idxVars>>]_vars

IndexSearchOps ==
    {"search_by_category", "search_by_tag", "search_by_metric_impact",
     "search_by_date_range"}

\* the length of the change list at the last call of build_all_indexes: each
\* call rebuilds the category index first, with one entry per change
BuiltCount ==
    SumOver([c \in DOMAIN category_index |-> Len(category_index[c])],
            DOMAIN category_index)

\* the positions whose change the arguments of the last search match
Matching ==
    IF ret.op = "search_by_category"
    THEN {i \in 1..Len(changes) : changes[i].category = ret.args[1]}
    ELSE IF ret.op = "search_by_tag"
    THEN {i \in 1..Len(changes) :
             \E j \in 1..Len(changes[i].tags) : changes[i].tags[j] = ret.args[1]}
    ELSE IF ret.op = "search_by_metric_impact"
    THEN {i \in 1..Len(changes) :
             \E j \in 1..Len(changes[i].expected_impact) :
                 /\ changes[i].expected_impact[j].metric = ret.args[1]
                 /\ changes[i].expected_impact[j].impact = ret.args[2]}
    ELSE InRange(ret.args[1], ret.args[2])

\* C13: an index search raises nothing and returns no change appended after
\* the last build_all_indexes, even one its arguments match; when the last
\* build covers the whole change list, a search returns every change its
\* arguments match.
C13_StaleUntilRebuilt ==
    ret.op \in IndexSearchOps =>
        LET pos == ResultPositions(ret.value)
        IN /\ ret.raised = "none"
           /\ \A k \in 1..Len(pos) : pos[k] <= BuiltCount
           /\ indexed_count = Len(changes) =>
                 \A i \in Matching : \E k \in 1..Len(pos) : pos[k] = i

\* a search by the tag of a change appended after the last build: the change
\* matches and is not returned, the indexed change with that tag is
C13_Witness ==
    /\ ret.op = "search_by_tag"
    /\ Len(changes) = 2
    /\ BuiltCount = 1
    /\ 2 \in Matching
    /\ ResultPositions(ret.value) = <<1>>

\* C20: build_all_indexes raises nothing, and a metric-impact search on the
\* indexes of the whole change list returns every change whose expected
\* impact declares that direction for that metric, whatever the metric name.
C20_BuildIndexesEveryPair ==
    /\ ret.op = "build_all_indexes" => ret.raised = "none"
    /\ (ret.op = "search_by_metric_impact" /\ BuiltCount = Len(changes)) =>
          \A i \in Matching :
              \E k \in 1..Len(ret.value) : ret.value[k].change.change_id = i

\* the number of times x occurs in the sequence s
Occurrences(s, x) == Cardinality({k \in 1..Len(s) : s[k] = x})

IndexesComplete ==
    \A i \in 1..Len(changes) :
        /\ changes[i].category \in DOMAIN category_index
        /\ \A c \in DOMAIN category_index :
              Occurrences(category_index[c], i)
                  = (IF c = changes[i].category THEN 1 ELSE 0)
        /\ \A j \in 1..Len(changes[i].tags) :
              /\ changes[i].tags[j] \in DOMAIN tag_index
              /\ Occurrences(tag_index[changes[i].tags[j]], i) >= 1
        /\ YearWeek(changes[i].timestamp) \in DOMAIN weekly_buckets
        /\ \A w \in DOMAIN weekly_buckets :
              Occurrences(weekly_buckets[w], i)
                  = (IF w = YearWeek(changes[i].timestamp) THEN 1 ELSE 0)
        /\ Occurrences(temporal_index, i) = 1

IndexesConsistent ==
    /\ \A c \in DOMAIN category_index :
          \A k \in 1..Len(category_index[c]) : category_index[c][k] \in 1..Len(changes)
    /\ \A t \in DOMAIN tag_index :
          \A k \in 1..Len(tag_index[t]) :
              /\ tag_index[t][k] \in 1..Len(changes)
              /\ \E j \in 1..Len(changes[tag_index[t][k]].tags) :
                    changes[tag_index[t][k]].tags[j] = t
    /\ \A w \in DOMAIN weekly_buckets :
          \A k \in 1..Len(weekly_buckets[w]) : weekly_buckets[w][k] \in 1..Len(changes)
    /\ Len(temporal_index) = Len(changes)
    /\ \A k \in 1..Len(temporal_index) : temporal_index[k] \in 1..Len(changes)
    /\ \A k, l \in 1..Len(temporal_index) :
          k < l => changes[temporal_index[k]].timestamp
                      <= changes[temporal_index[l]].timestamp

\* C12: right after a build_all_indexes that completed, every position of the
\* change list is once in the list of its own category and in no other, in the
\* list of each of its tags, once in the bucket of its week and in no other,
\* and once in the temporal index, which lists all positions by non-decreasing
\* timestamp; the indexes hold nothing else.
C12_IndexesAfterBuild ==
    (ret.op = "build_all_indexes" /\ ret.raised = "none") =>
        IndexesComplete /\ IndexesConsistent

\* a build over two changes stored out of time order, of which one has two tags
C12_Witness ==
    /\ ret.op = "build_all_indexes"
    /\ ret.raised = "none"
    /\ Len(changes) = 2
    /\ changes[1].timestamp > changes[2].timestamp
    /\ Len(changes[2].tags) = 2
    /\ temporal_index = <<2, 1>>

\* every position the indexes hold
IndexedPositions ==
    UNION {{category_index[c][k] : k \in 1..Len(category_index[c])} :
              c \in DOMAIN category_index}
    \cup UNION {{tag_index[t][k] : k \in 1..Len(tag_index[t])} : t \in DOMAIN tag_index}
    \cup UNION {{metric_impact_index[d][m][k] : k \in 1..Len(metric_impact_index[d][m])} :
                  d \in Impacts, m \in ConventionalMetrics}
    \cup {temporal_index[k] : k \in 1..Len(temporal_index)}

\* C30: at every moment every position held by the category, tag,
\* metric-impact and temporal indexes is a position of the change list; an
\* index search, on stale indexes too, raises nothing and each entry it
\* returns is a change of the list known at the last build, with exactly the
\* measurements now stored for the change's identifier.
C30_IndexPositionsValid ==
    /\ IndexedPositions \subseteq 1..Len(changes)
    /\ ret.op \in IndexSearchOps =>
          /\ ret.raised = "none"
          /\ \A k \in 1..Len(ret.value) :
                LET entry == ret.value[k]
                IN /\ entry.change.change_id \in 1..BuiltCount
                   /\ entry.change = changes[entry.change.change_id]
                   /\ entry.metrics
                         = SelectSeq(metrics,
                                     LAMBDA m : m.change_id = entry.change.change_id)

\* a search on stale indexes that returns an indexed change with a
\* measurement stored for it
C30_Witness ==
    /\ ret.op = "search_by_category"
    /\ Len(changes) = 2
    /\ BuiltCount = 1
    /\ changes[2].category = ret.args[1]
    /\ Len(ret.value) = 1
    /\ ret.value[1].change = changes[1]
    /\ Len(ret.value[1].metrics) = 1

\* the search for a category no change has, on a built, non-empty index
C8_Witness ==
    /\ ret.op = "search_by_category"
    /\ ret.args = <<"NonexistentCategory">>
    /\ ret.value = <<>>
    /\ Len(changes) > 0
    /\ indexed_count = Len(changes)

(***************************************************************************)
(* Impact analysis over a store that already holds its changes, with the   *)
(* IndexBuilder constructed over them: measurements are added and changes  *)
(* analyzed.                                                               *)
(***************************************************************************)
ImpactStores ==
    { <<LiveOpsChange(1, 5, "BOGO", {"bogo", "sale"},
                      <<Impact("revenue", "increase")>>, <<"promo">>),
        LiveOpsChange(2, 6, "BOGO", {"bogo", "weekend"},
                      <<Impact("revenue", "neutral"), Impact("dau", "decrease")>>, <<>>)>>,
      <<LiveOpsChange(1, 5, "BOGO", {"bogo", "sale"}, <<>>, <<>>),
        LiveOpsChange(2, 9, "Sale", {"gem", "sale"},
                      <<Impact("revenue", "decrease")>>, <<>>)>> }

\* before/after pairs on both sides of the +-5 percent thresholds, with a zero
\* and a negative before value
BeforeAfter ==
    { <<100, 105>>, <<100, 106>>, <<100, 95>>, <<100, 94>>, <<0, 5>>, <<0, 0>>,
      <<0, 0 - 5>>, <<0 - 100, 0 - 94>>, <<10000, 12000>> }

ImpactMetricKeys == { <<1, "revenue">>, <<2, "revenue">>, <<2, "dau">> }

IdxBuilt ==
    /\ category_index = build_category_index(changes)
    /\ metric_impact_index = build_metric_impact_index(changes)
    /\ temporal_index = build_temporal_index(changes)
    /\ weekly_buckets = build_weekly_buckets(changes)
    /\ tag_index = build_tag_index(changes)
    /\ indexed_count = Len(changes)

InitImpact ==
    /\ SelIdle /\ ProcIdle /\ ExtIdle
    /\ changes \in ImpactStores
    /\ metrics = <<>>
    /\ IdxBuilt
    /\ ret = NoCall

NextImpact ==
    \/ \E key \in ImpactMetricKeys, ba \in BeforeAfter :
          AddMetric(key[1], key[2], ba[1], ba[2], 7)
    \/ \E change_id \in ChangeIdArgs : AnalyzeChangeImpact(change_id)

SpecImpact == InitImpact /\ [][NextImpact]_vars

\* the measurement an impact_analysis entry reports: the latest one of the
\* change with that metric name
Reported(change_id, name) ==
    metrics[CHOOSE k \in 1..Len(metrics) :
               /\ metrics[k].change_id = change_id
               /\ metrics[k].metric_name = name
               /\ \A l \in (k + 1)..Len(metrics) :
                     ~(metrics[l].change_id = change_id /\ metrics[l].metric_name = name)]

Declared(change, name) ==
    {change.expected_impact[j].impact :
        j \in {i \in 1..Len(change.expected_impact) : change.expected_impact[i].metric = name}}

PercentChangeAsDefined ==
    \A k \in 1..Len(metrics) :
        LET m == metrics[k]
            pc == m.percent_change
        IN /\ m.before_value # 0 =>
                /\ pc.den # 0
                /\ pc.num * m.before_value
                      = (m.after_value - m.before_value) * 100 * pc.den
           /\ (m.before_value = 0 /\ m.after_value > 0) => pc = Inf
           /\ (m.before_value = 0 /\ m.after_value <= 0) => (pc.den # 0 /\ pc.num = 0)

\* C10: the percent_change of every measurement is (after - before) / before * 100
\* when before # 0, +infinity when before = 0 and after > 0, 0 when before = 0
\* and after <= 0; no step changes the percent_change of a stored measurement.
C10_PercentChange ==
    /\ []PercentChangeAsDefined
    /\ [][\A k \in 1..Len(metrics) :
             /\ k <= Len(metrics')
             /\ metrics'[k].percent_change = metrics[k].percent_change]_vars

\* a store with an infinite and a finite percent change, after a later call
C10_Witness ==
    /\ Len(metrics) = 2
    /\ metrics[1].before_value = 0 /\ metrics[1].after_value > 0
    /\ metrics[1].percent_change = Inf
    /\ metrics[2].before_value < 0
    /\ FracEq(metrics[2].percent_change, [num |-> 0 - 6, den |-> 1])
    /\ ret.op = "analyze_change_impact"

(***************************************************************************)
(* The metric history of a record store to which measurements are added.   *)
(***************************************************************************)
\* measurements of two metrics with a zero, a positive and a negative value
HistoryMetrics ==
    { <<name, value, timestamp>> :
         name \in {"revenue", "dau"}, value \in {0, 10, 0 - 5}, timestamp \in {1, 2, 3} }

HistoryRanges == { <<1, 3>>, <<2, 3>>, <<3, 1>> }

InitHistory ==
    /\ SelIdle /\ ProcIdle /\ RepoEmpty /\ IdxEmpty /\ ExtIdle
    /\ ret = NoCall

NextHistory ==
    \/ \E m \in HistoryMetrics : AddMetric(1, m[1], 100, m[2], m[3])
    \/ \E name \in {"revenue", "dau"}, range \in HistoryRanges :
          GetMetricHistory(name, range[1], range[2])

SpecHistory == InitHistory /\ [][NextHistory]_vars

\* the positions of the measurements a get_metric_history call matches
HistoryMatching ==
    {k \in 1..Len(metrics) :
        /\ metrics[k].metric_name = ret.args[1]
        /\ ret.args[2] <= metrics[k].timestamp
        /\ metrics[k].timestamp <= ret.args[3]}

\* k comes before l in ascending timestamp order, insertion order deciding ties
EarlierMetric(k, l) ==
    \/ metrics[k].timestamp < metrics[l].timestamp
    \/ (metrics[k].timestamp = metrics[l].timestamp /\ k <= l)

\* C14: the trend summary of get_metric_history has the values of the first
\* and the last matching measurement in ascending timestamp order and their
\* number, its percent change is (last - first) / first * 100 when first # 0,
\* +infinity when first = 0 and last > 0, and 0 when first = 0 and last <= 0;
\* with no matching measurement every field is 0.
C14_TrendSummary ==
    ret.op = "get_metric_history" =>
        LET trend == ret.value.trend_analysis
        IN IF HistoryMatching = {}
           THEN /\ trend.start_value = 0 /\ trend.end_value = 0
                /\ trend.percent_change = Zero /\ trend.num_measurements = 0
           ELSE LET first == metrics[CHOOSE k \in HistoryMatching :
                                        \A l \in HistoryMatching : EarlierMetric(k, l)].value
                    last == metrics[CHOOSE k \in HistoryMatching :
                                       \A l \in HistoryMatching : EarlierMetric(l, k)].value
                IN /\ trend.start_value = first
                   /\ trend.end_value = last
                   /\ trend.num_measurements = Cardinality(HistoryMatching)
                   /\ IF first # 0
                      THEN FracEq(trend.percent_change,
                                  Frac((last - first) * 100, first))
                      ELSE IF last > 0
                      THEN trend.percent_change = Inf
                      ELSE FracEq(trend.percent_change, Zero)

(***************************************************************************)
(* The text generation service: constructed with or without a key, then    *)
(* asked for responses, the external API answering or failing.             *)
(***************************************************************************)
ApiKeys == {<<>>, <<"key">>}
Replies == {"message", "exception"}

InitLLM ==
    /\ SelIdle /\ ProcIdle /\ RepoEmpty /\ IdxEmpty /\ ExtIdle
    /\ ret = NoCall

NextLLM ==
    \/ \E api_key \in ApiKeys : NewLLMService(api_key)
    \/ \E reply \in Replies : GenerateResponse(reply)

SpecLLM == InitLLM /\ [][NextLLM]_vars

AtUsageLimit == llm_usage_count # <<>> /\ llm_usage_count[1] >= UsageLimit

C27_UsageCountsApiCalls ==
    /\ [](llm_is_enabled =>
            /\ llm_usage_count # <<>>
            /\ llm_usage_count[1] >= 0
            /\ llm_usage_count[1] <= UsageLimit)
    /\ [][(llm_is_enabled /\ ret'.op = "generate_response") =>
            /\ llm_usage_count'[1] = llm_usage_count[1] + ret'.api_calls
            /\ llm_usage_count'[1] >= llm_usage_count[1]
            /\ ret'.api_calls \in {0, 1}
            /\ ret'.api_calls = 0 <=> llm_usage_count[1] >= UsageLimit]_vars

\* the last unit of the limit consumed by a call that failed
C27_Witness ==
    /\ llm_is_enabled
    /\ llm_usage_count = <<UsageLimit>>
    /\ ret.op = "generate_response"
    /\ ret.api_calls = 1
    /\ ret.args[1] = "exception"
    /\ ret.value = "error"

(***************************************************************************)
(* Time windows parsed from specifications of up to MaxParts parts.        *)
(***************************************************************************)
MaxParts == 3          \* parts of a window specification

WindowParts ==
    {"3", "0", "12", "+1", "-2", "1.5", "three",
     "day", "days", "week", "weeks", "month", "months", "year", "years", "Days", "hours"}

WindowNows == {10, 400}

InitWindow ==
    /\ intent_rules = <<>>
    /\ rule_data = <<>>
    /\ max_tokens = 0
    /\ context = <<>>
    /\ used_tokens = 0
    /\ sel_pc = "idle"
    /\ ProcIdle
    /\ window_spec \in SeqsUpTo(WindowParts, MaxParts)
    /\ now \in WindowNows
    /\ TrimIdle
    /\ RepoEmpty /\ IdxEmpty /\ ExtIdle
    /\ ret = NoCall

NextWindow == ParseTimeWindow

SpecWindow == InitWindow /\ [][NextWindow]_vars

\* the days a specification of the form '<integer> <unit>' stands for
WindowCounts ==
    [text \in {"3", "0", "12", "+1", "-2"} |->
        IF text = "3" THEN 3 ELSE IF text = "0" THEN 0 ELSE IF text = "12" THEN 12
        ELSE IF text = "+1" THEN 1 ELSE 0 - 2]

WindowUnits ==
    [unit \in {"day", "days", "Days"} |-> 1] @@ [unit \in {"week", "weeks"} |-> 7]
        @@ [unit \in {"month", "months"} |-> 30] @@ [unit \in {"year", "years"} |-> 365]

\* C17: a specification of two parts, an integer and a unit among day(s),
\* week(s), month(s), year(s), gives the window [now - delta, now] with
\* start <= end, delta being the count times 1, 7, 30 or 365 days; every
\* other specification raises the parse error.
C17_TimeWindow ==
    ret.op = "parse_time_window" =>
        LET parts == ret.args[1]
            today == ret.args[2]
        IN IF /\ Len(parts) = 2
              /\ parts[1] \in DOMAIN WindowCounts
              /\ parts[2] \in DOMAIN WindowUnits
           THEN /\ ret.raised = "none"
                /\ ret.value.end = today
                /\ ret.value.start = today - WindowCounts[parts[1]] * WindowUnits[parts[2]]
                /\ ret.value.start <= ret.value.end
           ELSE ret.raised = "ValueError"

(***************************************************************************)
(* Specification of _trim_context: one call on a collection of up to       *)
(* MaxTrimItems items and a limit that may be negative, as the limit of    *)
(* available - (used - context_tokens) in select_context can be.           *)
(***************************************************************************)
MaxTrimItems == 3      \* items of a collection given to _trim_context

TrimLimits == (0 - MaxTokens)..MaxTokens

InitTrim ==
    /\ intent_rules = <<>>
    /\ rule_data = <<>>
    /\ max_tokens = 0
    /\ context = <<>>
    /\ used_tokens = 0
    /\ sel_pc = "idle"
    /\ ProcIdle
    /\ WindowIdle
    /\ trim_data \in SeqsUpTo(ItemTokens, MaxTrimItems)
    /\ trim_limit \in TrimLimits
    /\ RepoEmpty /\ IdxEmpty /\ ExtIdle
    /\ ret = NoCall

NextTrim == TrimContext

SpecTrim == InitTrim /\ [][NextTrim]_vars

\* C22: _trim_context on a collection returns a prefix of its items, unchanged
\* and in order; under a limit of zero or more the prefix costs at most the
\* limit; the prefix ends at the first item that would take the running sum
\* over the limit; under a limit of zero or less the result is empty unless the
\* collection begins with items of no cost.
C22_TrimIsPrefixWithinLimit ==
    ret.op = "trim_context" =>
        LET trimmed == ret.value
            n == Len(trimmed)
        IN /\ ret.raised = "none"
           /\ IsPrefix(trimmed, trim_data)
           /\ trim_limit >= 0 => estimate_context_tokens(trimmed) <= trim_limit
           /\ \/ n = Len(trim_data)
              \/ estimate_context_tokens(trimmed) + trim_data[n + 1] > trim_limit
           /\ (trim_limit <= 0 /\ (trim_data = <<>> \/ trim_data[1] > 0)) =>
                  trimmed = <<>>

\* a trim that kept some items and dropped others, among them a later item
\* that would still have fitted
C22_Witness ==
    /\ ret.op = "trim_context"
    /\ Len(ret.value) > 0
    /\ Len(ret.value) + 2 = Len(trim_data)
    /\ estimate_context_tokens(ret.value) + trim_data[Len(trim_data)] <= trim_limit

\* the rule of the policy that has the given context type
RuleOf(type) == CHOOSE i \in 1..Len(intent_rules) : intent_rules[i].type = type

NonRequiredTypes == {t \in DOMAIN context : ~intent_rules[RuleOf(t)].required}

NonRequiredTokens ==
    SumOver([t \in NonRequiredTypes |-> estimate_context_tokens(context[t])],
            NonRequiredTypes)

\* C1: after select_context with token limit T, the estimated tokens of the
\* non-required entries of the returned context sum to at most T - reserved_tokens.
C1_NonRequiredWithinBudget ==
    sel_pc = "done" => NonRequiredTokens <= AvailableTokens(max_tokens)

\* C11: after select_context, every required rule whose handler returned data
\* has its entry in the context, holding the data whole, whatever the budget
\* and whatever the earlier rules consumed.
C11_RequiredInFull ==
    sel_pc = "done" =>
        \A i \in 1..Len(intent_rules) :
            (intent_rules[i].required /\ rule_data[i] # <<>>) =>
                /\ intent_rules[i].type \in DOMAIN context
                /\ context[intent_rules[i].type] = rule_data[i]

\* a required rule that comes second, after a rule that consumed tokens, with
\* data that alone costs more than the whole budget
C11_Witness ==
    /\ sel_pc = "done"
    /\ Len(intent_rules) = 2
    /\ intent_rules[2].required
    /\ estimate_context_tokens(rule_data[1]) > 0
    /\ intent_rules[1].type \in DOMAIN context
    /\ estimate_context_tokens(rule_data[2]) > AvailableTokens(max_tokens)
    /\ context[intent_rules[2].type] = rule_data[2]

\* used_tokens when the loop reaches rule i: what rules 1..i-1 left
UsedBefore(i) ==
    SelectLoop(SubSeq(intent_rules, 1, i - 1), rule_data, 1,
               AvailableTokens(max_tokens),
               [context |-> <<>>, used_tokens |-> 0]).used_tokens

\* C21: after select_context, a non-required rule with a positive token cost
\* that was reached when the earlier rules had already used the available
\* budget or more has no content in the returned context.
C21_ExhaustedBudgetAddsNothing ==
    sel_pc = "done" =>
        \A i \in 1..Len(intent_rules) :
            ( /\ ~intent_rules[i].required
              /\ estimate_context_tokens(rule_data[i]) > 0
              /\ UsedBefore(i) >= AvailableTokens(max_tokens) ) =>
                \/ intent_rules[i].type \notin DOMAIN context
                \/ context[intent_rules[i].type] = <<>>

\* a non-required rule reached within the budget whose data does not fit
Misfit(i) ==
    /\ ~intent_rules[i].required
    /\ rule_data[i] # <<>>
    /\ LET used == UsedBefore(i)
       IN /\ used <= AvailableTokens(max_tokens)
          /\ used + estimate_context_tokens(rule_data[i])
                 > AvailableTokens(max_tokens)

\* C29: after select_context, a non-required rule that was reached within the
\* budget and whose data does not fit in what remains has no entry in the
\* context and leaves the used-token count as it found it; a later non-required
\* rule whose data fits in what remains is in the context whole.
C29_MisfitSkippedWhole ==
    sel_pc = "done" =>
        \A i \in 1..Len(intent_rules) :
            Misfit(i) =>
                /\ intent_rules[i].type \notin DOMAIN context
                /\ UsedBefore(i + 1) = UsedBefore(i)
                /\ \A j \in (i + 1)..Len(intent_rules) :
                       ( /\ ~intent_rules[j].required
                         /\ rule_data[j] # <<>>
                         /\ UsedBefore(j) + estimate_context_tokens(rule_data[j])
                                <= AvailableTokens(max_tokens) ) =>
                           /\ intent_rules[j].type \in DOMAIN context
                           /\ context[intent_rules[j].type] = rule_data[j]

\* a non-required rule too large for a budget that is not yet spent, followed
\* by a smaller non-required rule that made it into the context
C29_Witness ==
    /\ sel_pc = "done"
    /\ Len(intent_rules) = 2
    /\ Misfit(1)
    /\ ~intent_rules[2].required
    /\ estimate_context_tokens(rule_data[2]) > 0
    /\ intent_rules[1].type \notin DOMAIN context
    /\ intent_rules[2].type \in DOMAIN context
    /\ context[intent_rules[2].type] = rule_data[2]

(***************************************************************************)
(* The vector store with a hybrid searcher over it: documents are added    *)
(* and cleared, weights adjusted and searches made in any order.           *)
(***************************************************************************)
HybridDocs ==
    { Document("d1", {"bogo", "sale"}, <<10, 0>>, {<<"category", "promotion">>}),
      Document("d2", {"slot", "launch"}, <<0, 10>>, {<<"category", "content">>}),
      Document("d3", {"bogo", "weekend"}, <<6, 8>>, {}) }

\* a query text with the embedding the embedding model gives it
HybridQueries ==
    { [text |-> {"bogo"}, embedding |-> <<8, 6>>],
      [text |-> {"sale"}, embedding |-> <<10, 0>>] }

\* the k, score_threshold (0.5) and metadata_filters arguments of the searches
SearchArgs ==
    { <<0, <<>>, {}>>, <<1, <<>>, {}>>, <<5, <<>>, {}>>,
      <<5, <<500000000>>, {}>>, <<5, <<>>, {<<"category", "promotion">>}>>,
      <<1, <<500000000>>, {<<"category", "promotion">>}>> }

\* weight pairs: accepted (0.3 + 0.7, and a sum 5e-7 above 1), a sum 2e-6
\* above 1, a sum of 0.6, and a pair outside [0,1] whose sum is 1
WeightArgs ==
    { <<3000000, 7000000>>, <<7000005, 3000000>>, <<7000020, 3000000>>,
      <<3000000, 3000000>>, <<0 - 2000000, 12000000>> }

InitHybrid ==
    /\ SelIdle /\ ProcIdle /\ RepoEmpty /\ IdxEmpty /\ ExtIdle
    /\ ret = NoCall

NextHybrid ==
    \/ \E doc \in HybridDocs : Add(doc)
    \/ \E docs \in SeqsUpTo(HybridDocs, MaxDocs) : AddMany(docs)
    \/ Clear
    \/ \E query \in HybridQueries, args \in SearchArgs :
          Search(query, args[1], args[2], args[3])
    \/ \E w \in WeightArgs : AdjustWeights(w[1], w[2])
    \/ \E w \in WeightArgs : NewHybridSearcher(w[1], w[2])
    \/ OnVectorStoreUpdate

SpecHybrid == InitHybrid /\ [][NextHybrid]_vars

\* C3: after every search the TF-IDF matrix it scored with is the one built
\* over exactly the documents now in the store, in their order.
C3_TfidfOverCurrentDocuments ==
    ret.op = "search" => tfidf_matrix = FitTransform(documents)

WeightRejected(a, b) ==
    \/ a < 0 \/ a > WeightOne
    \/ b < 0 \/ b > WeightOne
    \/ a + b - WeightOne > WeightTolerance
    \/ WeightOne - (a + b) > WeightTolerance

CombinedWithCurrentWeights ==
    ret.op = "search" =>
        \A j \in 1..Len(ret.value) :
            ret.value[j].combined_score =
                semantic_weight * ret.value[j].semantic_score
                    + keyword_weight * ret.value[j].keyword_score

\* C4: adjust_weights(a, b) and the constructor raise exactly when a or b is
\* outside [0,1] or |a + b - 1| > 1e-6 and then leave the weights as they
\* were; otherwise they store both weights; no other operation changes the
\* weights, and every search combines its scores with the stored weights.
C4_AdjustWeights ==
    /\ []CombinedWithCurrentWeights
    /\ [][IF ret'.op \in {"adjust_weights", "HybridSearcher"}
          THEN IF WeightRejected(ret'.args[1], ret'.args[2])
               THEN /\ ret'.raised = "ValueError"
                    /\ UNCHANGED <<semantic_weight, keyword_weight>>
               ELSE /\ ret'.raised = "none"
                    /\ semantic_weight' = ret'.args[1]
                    /\ keyword_weight' = ret'.args[2]
          ELSE UNCHANGED <<semantic_weight, keyword_weight>>]_vars

\* a search that returns results after the weights were set to 0.3 and 0.7
C4_Witness ==
    /\ ret.op = "search"
    /\ ret.value # <<>>
    /\ semantic_weight = 3000000
    /\ keyword_weight = 7000000

\* the documents the last search paired with a keyword score: zip stops at
\* the shorter of the document list and the rows of the TF-IDF matrix
Scored == 1..(IF Len(tfidf_matrix) < Len(documents) THEN Len(tfidf_matrix)
              ELSE Len(documents))

\* the scores the last search gave the document at position i: its similarity
\* to the query embedding, and the normalised similarity of the matrix row
\* the search paired it with
SemanticScore(i) == Dot(documents[i].embedding, ret.args.query.embedding)

KeywordScore(i) ==
    NormalizeKeyword(compute_keyword_scores(tfidf_matrix, ret.args.query.text)[i])

CombinedScore(i) == semantic_weight * SemanticScore(i) + keyword_weight * KeywordScore(i)

Returned(i) == \E j \in 1..Len(ret.value) : ret.value[j].id = documents[i].id

Candidates ==
    {i \in Scored :
        /\ SemanticScore(i) > ScoreFloor \/ KeywordScore(i) > ScoreFloor
        /\ ret.args.score_threshold # <<>>
              => CombinedScore(i) >= ret.args.score_threshold[1]
        /\ \A f \in ret.args.metadata_filters : f \in documents[i].metadata}

OwnKeywordScore(i) ==
    NormalizeKeyword(compute_keyword_scores(FitTransform(documents),
                                            ret.args.query.text)[i])

OwnCombinedScore(i) ==
    semantic_weight * SemanticScore(i) + keyword_weight * OwnKeywordScore(i)

\* the documents of the store that pass the floor, the threshold and the filter
OwnCandidates ==
    {i \in 1..Len(documents) :
        /\ SemanticScore(i) > ScoreFloor \/ OwnKeywordScore(i) > ScoreFloor
        /\ ret.args.score_threshold # <<>>
              => OwnCombinedScore(i) >= ret.args.score_threshold[1]
        /\ \A f \in ret.args.metadata_filters : f \in documents[i].metadata}

\* C19: every document of the store whose semantic or keyword score exceeds
\* 0.01 and that passes the threshold and the filter is returned, unless k
\* results with at least its combined score are; the keyword score of a
\* returned result is the one of its document's own text.
C19_EveryDocumentScored ==
    ret.op = "search" =>
        /\ \A i \in OwnCandidates :
              \/ Returned(i)
              \/ /\ Len(ret.value) = ret.args.k
                 /\ \A j \in 1..Len(ret.value) :
                       ret.value[j].combined_score >= OwnCombinedScore(i)
        /\ \A j \in 1..Len(ret.value) :
              \A i \in 1..Len(documents) :
                  documents[i].id = ret.value[j].id
                      => ret.value[j].keyword_score = OwnKeywordScore(i)

(***************************************************************************)
(* The vector store alone: documents are added, the store is cleared and   *)
(* similarity_search is called, in any order.                              *)
(***************************************************************************)
\* query embeddings, and the k and score_threshold (0.5) arguments
StoreQueries == {<<8, 6>>, <<10, 0>>}

StoreKs == {0, 1, 2, 5}

StoreThresholds == {<<>>, <<50>>}

InitStore ==
    /\ SelIdle /\ ProcIdle /\ RepoEmpty /\ IdxEmpty /\ ExtIdle
    /\ ret = NoCall

NextStore ==
    \/ \E doc \in HybridDocs : Add(doc)
    \/ \E docs \in SeqsUpTo(HybridDocs, MaxDocs) : AddMany(docs)
    \/ Clear
    \/ \E query_embedding \in StoreQueries, k \in StoreKs,
          score_threshold \in StoreThresholds :
          SimilaritySearch(query_embedding, k, score_threshold)

SpecStore == InitStore /\ [][NextStore]_vars

\* the documents of a similarity_search result
ResultDocuments == {ret.value[j].document : j \in 1..Len(ret.value)}

\* C24: whenever the dirty flag of the vector store is false, the embedding
\* matrix has one row per stored document, in document-list order (no matrix
\* when the store is empty); a similarity_search that asks for every document
\* returns exactly the documents the store holds.
C24_MatrixMatchesDocuments ==
    /\ ~vs_needs_refresh =>
           /\ Len(embeddings) = Len(documents)
           /\ \A i \in 1..Len(documents) : embeddings[i] = documents[i].embedding
    /\ ( /\ ret.op = "similarity_search"
         /\ ret.args.k >= MaxDocs + 1
         /\ ret.args.score_threshold = <<>> ) =>
           /\ ResultDocuments = {documents[i] : i \in 1..Len(documents)}
           /\ Len(ret.value) = Len(documents)

\* a search that asked for every document of a store of two, with the flag
\* cleared by the search
C24_Witness ==
    /\ ret.op = "similarity_search"
    /\ ret.args.k >= MaxDocs + 1
    /\ ret.args.score_threshold = <<>>
    /\ ~vs_needs_refresh
    /\ Len(documents) = 2
    /\ documents[1].id = "d3"

\* the similarity similarity_search computes for stored document i
StoreScore(i) == Dot(documents[i].embedding, ret.args.query_embedding)

\* the stored documents a similarity_search may return: all of them, or those
\* at or above the threshold
StoreCandidates ==
    {i \in 1..Len(documents) :
        \/ ret.args.score_threshold = <<>>
        \/ StoreScore(i) >= ret.args.score_threshold[1]}

\* C25: similarity_search(query, k, score_threshold) returns at most k
\* (document, score) pairs for every k >= 0, in order of non-increasing
\* similarity; they are the k highest-scoring documents of the store, among
\* those at or above the threshold when one is given; on an empty store the
\* result is empty.
C25_TopKBySimilarity ==
    ret.op = "similarity_search" =>
        LET value == ret.value
            n == Len(value)
            picked == {i \in 1..Len(documents) : documents[i] \in ResultDocuments}
        IN /\ n <= ret.args.k
           /\ \A j \in 1..(n - 1) : value[j].score >= value[j + 1].score
           /\ \A j \in 1..n :
                  \E i \in StoreCandidates :
                      /\ value[j].document = documents[i]
                      /\ value[j].score = StoreScore(i)
           /\ Cardinality(picked) = n
           /\ \/ n = ret.args.k
              \/ picked = StoreCandidates
           /\ \A i \in picked, l \in StoreCandidates \ picked :
                  StoreScore(i) >= StoreScore(l)
           /\ documents = <<>> => value = <<>>

(***************************************************************************)
(* The text processor on one text: the text is made of up to MaxSegments   *)
(* segments (runs of letters, a space, the end of a sentence, a comma, a   *)
(* paragraph break), the processor has one of a few configurations with    *)
(* 0 <= chunk_overlap < chunk_size.  The loop of split_into_chunks is      *)
(* scheduled fairly: a call that is running takes its next step.           *)
(***************************************************************************)
MaxSegments == 3       \* segments of a text given to split_into_chunks

Letters(n) == [i \in 1..n |-> "a"]

Segments ==
    { Letters(5), Letters(25), <<" ">>, <<".", " ">>, <<",">>, <<"nl", "nl">> }

RECURSIVE Concat(_)
Concat(segs) == IF segs = <<>> THEN <<>> ELSE Head(segs) \o Concat(Tail(segs))

ProcTexts == {Concat(segs) : segs \in SeqsUpTo(Segments, MaxSegments)}

ProcConfigs ==
    { [chunk_size |-> 20, chunk_overlap |-> 0, min_chunk_size |-> 1, clean_text |-> TRUE],
      [chunk_size |-> 30, chunk_overlap |-> 10, min_chunk_size |-> 5, clean_text |-> TRUE],
      [chunk_size |-> 20, chunk_overlap |-> 19, min_chunk_size |-> 1, clean_text |-> FALSE],
      [chunk_size |-> 60, chunk_overlap |-> 5, min_chunk_size |-> 50, clean_text |-> FALSE] }

InitProc ==
    /\ SelIdle /\ RepoEmpty /\ IdxEmpty /\ ExtIdle
    /\ tp_config \in ProcConfigs
    /\ tp_text \in ProcTexts
    /\ tp_start = 0
    /\ tp_chunks = {}
    /\ tp_pc = "call"
    /\ ret = NoCall

NextProc ==
    \/ SplitIntoChunks
    \/ ChunkStep

SpecProc == InitProc /\ [][NextProc]_vars /\ WF_vars(NextProc)

\* C26: split_into_chunks returns for every text under every configuration
\* with 0 <= chunk_overlap < chunk_size: every pass through the loop moves
\* start strictly forward, so the loop ends.
C26_ChunkingTerminates ==
    /\ [][(tp_pc = "loop" /\ tp_pc' = "loop") => tp_start' > tp_start]_vars
    /\ <>(tp_pc = "done")

(***************************************************************************)
(* The intent analyzer on one query: the query, the configuration and the  *)
(* embedding the model gives the query are drawn in the initial state.     *)
(***************************************************************************)
QueryFragments == {"compare", "vs", "how", "can", "trend", "revenue", "impact",
                   "week", "Week", "improve", "BOGO"}

EntityType(type, values, aliases, patterns) ==
    [type |-> type, values |-> values, aliases |-> aliases, patterns |-> patterns]

IntentConfigs ==
    { [entity_types |->
          << EntityType("metric", <<<<"revenue">>>>, <<>>, <<>>),
             EntityType("category", <<<<"BOGO">>>>,
                        <<[alias |-> <<"bogo">>, value |-> <<"BOGO">>]>>, <<>>),
             EntityType("time_period", <<>>, <<>>, <<"week">>),
             EntityType("effect", <<<<"impact">>>>, <<>>, <<>>),
             EntityType("objective", <<<<"improve">>>>, <<>>, <<>>) >>,
       examples |->
          << [intent_type |-> "metric_trend", embeddings |-> <<<<10, 0>>>>],
             [intent_type |-> "recommendation", embeddings |-> <<>>],
             [intent_type |-> "general_query", embeddings |-> <<<<0, 10>>, <<6, 8>>>>] >>],
      [entity_types |->
          << EntityType("comparison_targets", <<>>, <<>>, <<"bogo">>),
             EntityType("metric", <<<<"revenue">>>>,
                        <<[alias |-> <<"impact">>, value |-> <<"revenue">>]>>, <<>>),
             EntityType("time_period", <<>>, <<>>, <<"week">>) >>,
       examples |-> <<>>] }

\* no embedding model, or the embedding of the query
QueryEmbeddings == {<<>>, <<<<10, 0>>>>, <<<<0, 10>>>>}

InitIntent ==
    /\ SelIdle /\ ProcIdle /\ RepoEmpty /\ IdxEmpty /\ StoreEmpty /\ SearcherNew /\ InsightIdle
    /\ ia_query \in SeqsUpTo(QueryFragments, MaxQueryLen)
    /\ ia_config \in IntentConfigs
    /\ ia_embedding \in QueryEmbeddings
    /\ ret = NoCall

NextIntent == Analyze

SpecIntent == InitIntent /\ [][NextIntent]_vars

\* the analyzer followed by the domain-knowledge rule of select_context
NextDomain ==
    \/ Analyze
    \/ GetDomainKnowledge

SpecDomain == InitIntent /\ [][NextDomain]_vars

\* the cues of the five rules, on the query and the entities analyze returned
HasEntity(type) == type \in DOMAIN ret.value.entities

QueryHas(cue) == Contains(lower(ia_query), cue)

QueryBegins(cue) == StartsWith(lower(ia_query), cue)

ComparisonCue ==
    \/ HasEntity("comparison_targets")
    \/ QueryHas(<<"compare">>) \/ QueryHas(<<"vs">>) \/ QueryHas(<<"versus">>)

CausalCue == HasEntity("effect") /\ HasEntity("time_period")

RecommendationCue ==
    \/ HasEntity("objective")
    \/ QueryBegins(<<"how", "can">>) \/ QueryBegins(<<"what", "should">>)
    \/ QueryBegins(<<"suggest">>)

MetricTrendCue ==
    /\ HasEntity("metric")
    /\ \/ QueryHas(<<"trend">>) \/ QueryHas(<<"over", "time">>)
       \/ QueryHas(<<"changed">>) \/ QueryHas(<<"history">>)

CategoryCue == HasEntity("category")

Determined == <<ret.value.intent_type, ret.value.confidence>>

\* C6: the intent is that of the first rule, in the order comparison, causal,
\* recommendation, metric trend, category, whose cue is present, with
\* confidence 0.9 (0.8 for the category rule), whatever later cues are present
\* too; with no cue and no semantic fallback it is general_query with 0.5.
C6_RulePriority ==
    ret.op = "analyze" =>
        IF ComparisonCue THEN Determined = <<"comparative_analysis", 900>>
        ELSE IF CausalCue THEN Determined = <<"causal_analysis", 900>>
        ELSE IF RecommendationCue THEN Determined = <<"recommendation", 900>>
        ELSE IF MetricTrendCue THEN Determined = <<"metric_trend", 900>>
        ELSE IF CategoryCue THEN Determined = <<"category_analysis", 800>>
        ELSE (ia_embedding = <<>> \/ ia_config.examples = <<>>)
                => Determined = <<"general_query", 500>>

\* a query with the comparison cue and the metric trend cue was analyzed
C6_Witness ==
    /\ ret.op = "analyze"
    /\ QueryHas(<<"compare">>)
    /\ MetricTrendCue
    /\ ret.value.intent_type = "comparative_analysis"

\* the entity values analyze returned, over all types, each occurrence counted
EntityOccurrences ==
    {<<type, k>> : type \in DOMAIN ret.value.entities, k \in 1..MaxQueryLen + 2} \cap
    {o \in (DOMAIN ret.value.entities) \X (1..MaxQueryLen + 2) :
        o[2] <= Len(ret.value.entities[o[1]])}

TimePeriods == {o \in EntityOccurrences : o[1] = "time_period"}

\* C23: the complexity analyze returns is complex when the intent is
\* comparative_analysis or causal_analysis, or more than 3 entity values were
\* extracted over all types, or more than one time_period value; otherwise
\* medium when more than 1 entity value was extracted; otherwise simple.
C23_Complexity ==
    ret.op = "analyze" =>
        LET r == ret.value
            total == Cardinality(EntityOccurrences)
        IN /\ r.complexity = "complex" <=>
                  \/ r.intent_type \in {"comparative_analysis", "causal_analysis"}
                  \/ total > 3
                  \/ Cardinality(TimePeriods) > 1
           /\ r.complexity = "medium" <=>
                  /\ r.complexity # "complex"
                  /\ total > 1
           /\ r.complexity = "simple" <=>
                  /\ r.complexity # "complex"
                  /\ total <= 1
           /\ r.complexity \in {"complex", "medium", "simple"}

\* a query of two entity values, both time periods, of an intent that is not
\* complex by itself: complex
C23_Witness ==
    /\ ret.op = "analyze"
    /\ Cardinality(EntityOccurrences) = 2
    /\ Cardinality(TimePeriods) = 2
    /\ ret.value.intent_type \notin {"comparative_analysis", "causal_analysis"}
    /\ ret.value.complexity = "complex"

\* the analysis the domain-knowledge handler was called with
Analysis == ret.args[1]

\* C28: the domain-knowledge handler, and select_context with it, raises
\* nothing on an analysis analyze produced; for a category_analysis intent
\* with a category entity, or a metric_trend intent with a metric entity, it
\* returns the matching explanatory text or an empty result.
C28_DomainKnowledgeNeverRaises ==
    ret.op = "get_domain_knowledge" =>
        /\ ret.raised = "none"
        /\ \A k \in DOMAIN ret.value :
               \/ /\ k = "category_context"
                  /\ Analysis.intent_type = "category_analysis"
                  /\ ret.value[k] \in CategoryContexts
               \/ /\ k = "metric_context"
                  /\ Analysis.intent_type \in {"metric_impact", "metric_trend"}
                  /\ ret.value[k] \in MetricContexts

\* C15: the list analyze returns for an entity type holds no string twice.
C15_EntitiesDeduplicated ==
    ret.op = "analyze" =>
        \A type \in DOMAIN ret.value.entities :
            \A k, l \in 1..Len(ret.value.entities[type]) :
                k # l => ret.value.entities[type][k] # ret.value.entities[type][l]

(***************************************************************************)
(* Insight generation over a repository drawn in the initial state, to     *)
(* which measurements are added.                                           *)
(***************************************************************************)
InsightStores ==
    { <<>>,
      <<LiveOpsChange(1, 5, "BOGO", {"bogo", "sale"},
                      <<Impact("revenue", "increase")>>, <<"promo">>)>>,
      <<LiveOpsChange(1, 5, "BOGO", {"bogo", "sale"},
                      <<Impact("revenue", "increase")>>, <<"promo">>),
        LiveOpsChange(2, 9, "Sale", {"gem", "sale"},
                      <<Impact("revenue", "decrease")>>, <<>>)>> }

InsightMetrics ==
    { <<1, "revenue", 100, 110>>, <<1, "revenue", 0, 5>>, <<2, "dau", 100, 90>>,
      <<1, "SLIB", 100, 120>> }

InsightQueries ==
    { <<"similar", "BOGO", "Sale">>, <<"BOGO">>, <<"revenue", "trend">>, <<"how", "can">> }

InitInsight ==
    /\ SelIdle /\ ProcIdle /\ StoreEmpty /\ SearcherNew /\ IntentIdle
    /\ changes \in InsightStores
    /\ metrics = <<>>
    /\ IdxBuilt
    /\ rag_embeddings = build_embeddings(changes)
    /\ LLMIdle
    /\ ret = NoCall

NextInsight ==
    \/ \E m \in InsightMetrics : AddMetric(m[1], m[2], m[3], m[4], 10)
    \/ \E query \in InsightQueries : GenerateInsight(query)

SpecInsight == InitInsight /\ [][NextInsight]_vars

\* C9: with no text generation service, generate_insight returns a non-empty
\* string and does not raise, for every query and every repository content.
C9_FallbackNeverRaises ==
    ret.op = "generate_insight" => ret.raised = "none" /\ Len(ret.value) > 0

=============================================================================
